---- MODULE Spec2Model ----
(***************************************************************************)
(* Model of the evidence-classification pipeline of compliance_app:        *)
(*   python-scripts/evidence_process_agents.py  (supervisor composition,   *)
(*       date guard pipeline, control assigner, specification cache)       *)
(*   python-scripts/hitl.py                     (stage engine: command     *)
(*       protocol, stages, twin of the specification cache)                *)
(*                                                                         *)
(* Conventions.                                                            *)
(*   - A Python str is a sequence of one-character strings; " " is the     *)
(*     whitespace character of the alphabet.                               *)
(*   - Optional[T] is a sequence of length 0 (None) or 1 (the value).      *)
(*   - A calendar date is <<y, m, d>>; a failed construction is <<>>.      *)
(*   - A function of the code that can raise returns a record with a       *)
(*     field raised.                                                       *)
(***************************************************************************)
EXTENDS Integers, Sequences, FiniteSets, TLC

VARIABLES
    impl,            \* which module this process runs: "agents" or "hitl"
    clock,           \* time.time(), in seconds
    SPECS_CACHE,     \* _SPECS_CACHE    : Optional[List[spec]]
    SPECS_CACHE_AT,  \* _SPECS_CACHE_AT : Optional[float]
    call,            \* history: the most recent _get_control_specs_cached call
    lastLoad,        \* history: time and catalog of the last reload that produced specs
    pc,              \* position of the run_supervisor invocation
    inp,             \* its arguments text, date_start, date_end
    date_check,      \* its local date_check
    actions_summary, \* its local actions_summary (Optional)
    assign,          \* _control_assigner_core: specs, the kinds of the replies, the dict returned
    result,          \* the dict run_supervisor returned
    trace,           \* history: the steps the invocation has executed, in order
    fn_in,           \* the arguments a date function is called with
    fn_out,          \* the function applied to them and what it returned
    argv,            \* hitl.py: sys.argv[1:]
    stdin,           \* hitl.py: what sys.stdin.read() delivers
    stdout,          \* hitl.py: the JSON values printed, in order
    stderr,          \* hitl.py: "traceback" once an uncaught exception was reported
    exit_code,       \* hitl.py: Optional exit status of the process
    session,         \* history: the run-stage commands a host has run for one item
    threads          \* the _get_control_specs_cached calls of the threads of a host

vars == <<impl, clock, SPECS_CACHE, SPECS_CACHE_AT, call, lastLoad,
          pc, inp, date_check, actions_summary, assign, result, trace,
          fn_in, fn_out, argv, stdin, stdout, stderr, exit_code, session, threads>>

cacheVars == <<SPECS_CACHE, SPECS_CACHE_AT, call, lastLoad, threads>>
supVars   == <<pc, inp, date_check, actions_summary, assign, result, trace>>
fnVars    == <<fn_in, fn_out>>
hitlVars  == <<argv, stdin, stdout, stderr, exit_code, session>>

-----------------------------------------------------------------------------
(* Optional values and Python truthiness *)

None == <<>>
Some(x) == <<x>>
IsNone(o) == o = <<>>
Val(o) == o[1]

-----------------------------------------------------------------------------
(* Strings *)

\* a native string as a Python str: the sequence of its characters
Chars(s) == [i \in 1..Len(s) |-> SubSeq(s, i, i)]

IsSpace(c) == c \in {" ", "\n"}

RECURSIVE LStrip(_)
LStrip(s) ==
    IF s = <<>> THEN s
    ELSE IF IsSpace(Head(s)) THEN LStrip(Tail(s)) ELSE s

RECURSIVE RStrip(_)
RStrip(s) ==
    IF s = <<>> THEN s
    ELSE IF IsSpace(s[Len(s)]) THEN RStrip(SubSeq(s, 1, Len(s) - 1)) ELSE s

\* str.strip()
Strip(s) == RStrip(LStrip(s))

\* re.sub(r"\s+", " ", s)
RECURSIVE SubWs(_)
SubWs(s) ==
    IF s = <<>> THEN <<>>
    ELSE IF IsSpace(Head(s)) THEN <<" ">> \o SubWs(LStrip(s))
    ELSE <<Head(s)>> \o SubWs(Tail(s))

\* _collapse_ws(s) = re.sub(r"\s+", " ", s or "").strip()
collapse_ws(s) == Strip(SubWs(s))

-----------------------------------------------------------------------------
(* JSON values of a catalog row *)

Absent == [k |-> "absent", s |-> <<>>]
Null   == [k |-> "null",   s |-> <<>>]
Str(s) == [k |-> "str",    s |-> s]

\* str(row.get(key, "")): a missing key gives "", a JSON null gives "None"
StrGetDefault(v) ==
    IF v.k = "absent" THEN <<>>
    ELSE IF v.k = "null" THEN <<"N", "o", "n", "e">>
    ELSE v.s

\* str(row.get(key) or ''): a missing key, a null and "" all give ""
StrGetOr(v) == IF v.k = "str" THEN v.s ELSE <<>>

\* An element of a JSON array: an object with the three fields, or a scalar
Obj(rid, cid, spec) == [obj |-> TRUE, id |-> rid, control_id |-> cid, specification |-> spec]
Scalar == [obj |-> FALSE, id |-> Absent, control_id |-> Absent, specification |-> Absent]

ControlSpec(rid, cid, spec) == [id |-> rid, control_id |-> cid, specification |-> spec]

-----------------------------------------------------------------------------
(* Documents and transport outcomes of the catalog sources *)

\* json.loads result: a list of elements, a non-empty object, {}, null, a number
ListDoc(rows) == [kind |-> "list", rows |-> rows]
DictDoc       == [kind |-> "dict", rows |-> <<>>]
EmptyDictDoc  == [kind |-> "emptydict", rows |-> <<>>]
NullDoc       == [kind |-> "null", rows |-> <<>>]
NumberDoc     == [kind |-> "number", rows |-> <<>>]

\* Python truthiness of a parsed document (the number is non-zero)
DocTruthy(doc) ==
    CASE doc.kind = "list"   -> doc.rows # <<>>
      [] doc.kind = "dict"   -> TRUE
      [] doc.kind = "number" -> TRUE
      [] OTHER               -> FALSE

\* Response text of _http_get / _http_post_json: None (timeout, transport error),
\* "" (empty body), text that is not JSON, or JSON text
HttpNone      == [kind |-> "none", doc |-> NullDoc]
HttpEmpty     == [kind |-> "empty", doc |-> NullDoc]
HttpNonJson   == [kind |-> "nonjson", doc |-> NullDoc]
HttpJson(doc) == [kind |-> "json", doc |-> doc]
NotAsked      == [kind |-> "notasked", doc |-> NullDoc]

\* The local file db/control_specs.json
FileMissing    == [kind |-> "missing", doc |-> NullDoc]
FileUnreadable == [kind |-> "unreadable", doc |-> NullDoc]
FileMalformed  == [kind |-> "malformed", doc |-> NullDoc]
FileJson(doc)  == [kind |-> "json", doc |-> doc]

\* `if text:` then json.loads(text) inside try/except
TextTruthy(t) == t.kind \in {"nonjson", "json"}

-----------------------------------------------------------------------------
(* Row filters *)

\* evidence_process_agents.py: the loop over the rows. row.get on an element
\* that is not an object raises AttributeError.
RECURSIVE FilterRowsAgents(_)
FilterRowsAgents(rows) ==
    IF rows = <<>> THEN [raised |-> FALSE, out |-> <<>>]
    ELSE LET row  == Head(rows)
             rest == FilterRowsAgents(Tail(rows))
             cid  == StrGetDefault(row.control_id)
             spec == collapse_ws(StrGetDefault(row.specification))
             rid  == StrGetDefault(row.id)
         IN  IF ~row.obj \/ rest.raised THEN [raised |-> TRUE, out |-> <<>>]
             ELSE IF cid # <<>> /\ spec # <<>>
                  THEN [raised |-> FALSE, out |-> <<ControlSpec(rid, cid, spec)>> \o rest.out]
                  ELSE rest

\* hitl.py: the loop over the rows
RECURSIVE FilterRowsHitl(_)
FilterRowsHitl(rows) ==
    IF rows = <<>> THEN [raised |-> FALSE, out |-> <<>>]
    ELSE LET row  == Head(rows)
             rest == FilterRowsHitl(Tail(rows))
             cid  == Strip(StrGetOr(row.control_id))
             spec == Strip(StrGetOr(row.specification))
             rid  == StrGetOr(row.id)
         IN  IF ~row.obj \/ rest.raised THEN [raised |-> TRUE, out |-> <<>>]
             ELSE IF cid # <<>> /\ spec # <<>>
                  THEN [raised |-> FALSE, out |-> <<ControlSpec(rid, cid, spec)>> \o rest.out]
                  ELSE rest

\* hitl.py `for row in arr` over any parsed document: a dict iterates its keys
\* (strings, so row.get raises), {} iterates nothing, null and numbers are
\* not iterable
IterateHitl(doc) ==
    CASE doc.kind = "list"      -> FilterRowsHitl(doc.rows)
      [] doc.kind = "emptydict" -> [raised |-> FALSE, out |-> <<>>]
      [] OTHER                  -> [raised |-> TRUE, out |-> <<>>]

-----------------------------------------------------------------------------
(* Loaders. Each returns [raised, val, contacted, rows]: val is the         *)
(* Optional[List] returned, contacted lists the sources consulted, in      *)
(* order, and rows are the source rows the returned list was filtered from. *)

Loaded(raised, val, contacted, rows) ==
    [raised |-> raised, val |-> val, contacted |-> contacted, rows |-> rows]

\* evidence_process_agents.py: data after the primary endpoint
AgentsPrimaryData(p) == IF p.kind = "json" THEN Some(p.doc) ELSE None

\* evidence_process_agents.py: `if not data:` - the RPC endpoint is asked
AgentsNeedsRpc(p) ==
    LET data == AgentsPrimaryData(p)
    IN  IsNone(data) \/ ~DocTruthy(Val(data))

load_specs_from_supabase_agents(conf, p, r) ==
    IF ~conf THEN Loaded(FALSE, None, <<>>, <<>>)
    ELSE LET data1 == AgentsPrimaryData(p)
             rpc   == AgentsNeedsRpc(p)
             data  == IF ~rpc THEN data1
                      ELSE IF r.kind = "json" THEN Some(r.doc)
                      ELSE IF r.kind = "nonjson" THEN None
                      ELSE data1
             seen  == IF rpc THEN <<"primary", "rpc">> ELSE <<"primary">>
         IN  IF IsNone(data) \/ ~DocTruthy(Val(data)) \/ Val(data).kind # "list"
             THEN Loaded(FALSE, None, seen, <<>>)
             ELSE LET f == FilterRowsAgents(Val(data).rows)
                  IN  IF f.raised THEN Loaded(TRUE, None, seen, Val(data).rows)
                      ELSE Loaded(FALSE, Some(f.out), seen, Val(data).rows)

load_specs_local_fallback_agents(l) ==
    IF l.kind = "json" /\ l.doc.kind = "list"
    THEN LET f == FilterRowsAgents(l.doc.rows)
         IN  IF f.raised THEN Loaded(FALSE, None, <<"local">>, <<>>)
             ELSE Loaded(FALSE, Some(f.out), <<"local">>, l.doc.rows)
    ELSE Loaded(FALSE, None, <<"local">>, <<>>)

load_specs_from_supabase_hitl(conf, p) ==
    IF ~conf THEN Loaded(FALSE, None, <<>>, <<>>)
    ELSE IF ~TextTruthy(p) \/ p.kind = "nonjson" THEN Loaded(FALSE, None, <<"primary">>, <<>>)
    ELSE LET f == IterateHitl(p.doc)
         IN  IF f.raised THEN Loaded(FALSE, None, <<"primary">>, <<>>)
             ELSE Loaded(FALSE, Some(f.out), <<"primary">>, p.doc.rows)

load_specs_local_fallback_hitl(l) ==
    IF l.kind # "json" THEN Loaded(FALSE, None, <<"local">>, <<>>)
    ELSE LET f == IterateHitl(l.doc)
         IN  IF f.raised THEN Loaded(FALSE, None, <<"local">>, <<>>)
             ELSE Loaded(FALSE, Some(f.out), <<"local">>, l.doc.rows)

load_specs_from_supabase(im, conf, p, r) ==
    IF im = "agents" THEN load_specs_from_supabase_agents(conf, p, r)
    ELSE load_specs_from_supabase_hitl(conf, p)

load_specs_local_fallback(im, l) ==
    IF im = "agents" THEN load_specs_local_fallback_agents(l)
    ELSE load_specs_local_fallback_hitl(l)

\* `x or ...`: an Optional list is truthy when it is a non-empty list
ListTruthy(o) == ~IsNone(o) /\ Val(o) # <<>>

-----------------------------------------------------------------------------
(* The TTL cache *)

SPECS_TTL_SEC == 15 * 60

\* The state of the outside world one reload sees
Env(conf, p, r, l) == [conf |-> conf, primary |-> p, rpc |-> r, localf |-> l]

\* mutant: the entry is still served when exactly the TTL has elapsed
CacheFresh_inclusive(cache, at, now) ==
    /\ ListTruthy(cache)
    /\ ~IsNone(at) /\ Val(at) # 0
    /\ (now - Val(at)) <= SPECS_TTL_SEC

\* the guard of the early return: cache and timestamp truthy, and fresh
CacheFresh(cache, at, now) ==
    /\ ListTruthy(cache)
    /\ ~IsNone(at) /\ Val(at) # 0
    /\ (now - Val(at)) < SPECS_TTL_SEC

\* mutant: both loaders are called before the `or` chain chooses
ReloadSpecs_eager(im, env) ==
    LET remote == load_specs_from_supabase(im, env.conf, env.primary, env.rpc)
        loc    == load_specs_local_fallback(im, env.localf)
        shape(x) == IF x.raised THEN "raised" ELSE IF IsNone(x.val) THEN "none"
                    ELSE IF Val(x.val) = <<>> THEN "empty" ELSE "list"
    IN  IF remote.raised
        THEN [raised |-> TRUE, specs |-> <<>>, contacted |-> remote.contacted,
              remote |-> "raised", loc |-> "notasked", rows |-> remote.rows]
        ELSE IF ListTruthy(remote.val)
        THEN [raised |-> FALSE, specs |-> Val(remote.val),
              contacted |-> remote.contacted \o loc.contacted,
              remote |-> "list", loc |-> shape(loc), rows |-> remote.rows]
        ELSE IF ListTruthy(loc.val)
        THEN [raised |-> FALSE, specs |-> Val(loc.val),
              contacted |-> remote.contacted \o loc.contacted,
              remote |-> shape(remote), loc |-> "list", rows |-> loc.rows]
        ELSE [raised |-> FALSE, specs |-> <<>>,
              contacted |-> remote.contacted \o loc.contacted,
              remote |-> shape(remote), loc |-> shape(loc),
              rows |-> IF IsNone(loc.val) THEN remote.rows ELSE loc.rows]

\* specs = _load_specs_from_supabase() or _load_specs_local_fallback() or []
\* The local loader is evaluated only when the remote result is falsy. Besides
\* the value (or the raise) the record keeps what the call observed: the
\* sources contacted, what each loader returned, and the rows that were kept.
ReloadSpecs(im, env) ==
    LET remote == load_specs_from_supabase(im, env.conf, env.primary, env.rpc)
        loc    == load_specs_local_fallback(im, env.localf)
        shape(x) == IF x.raised THEN "raised" ELSE IF IsNone(x.val) THEN "none"
                    ELSE IF Val(x.val) = <<>> THEN "empty" ELSE "list"
    IN  IF remote.raised
        THEN [raised |-> TRUE, specs |-> <<>>, contacted |-> remote.contacted,
              remote |-> "raised", loc |-> "notasked", rows |-> remote.rows]
        ELSE IF ListTruthy(remote.val)
        THEN [raised |-> FALSE, specs |-> Val(remote.val), contacted |-> remote.contacted,
              remote |-> "list", loc |-> "notasked", rows |-> remote.rows]
        ELSE IF ListTruthy(loc.val)
        THEN [raised |-> FALSE, specs |-> Val(loc.val),
              contacted |-> remote.contacted \o loc.contacted,
              remote |-> shape(remote), loc |-> "list", rows |-> loc.rows]
        ELSE [raised |-> FALSE, specs |-> <<>>,
              contacted |-> remote.contacted \o loc.contacted,
              remote |-> shape(remote), loc |-> shape(loc),
              rows |-> IF IsNone(loc.val) THEN remote.rows ELSE loc.rows]

\* mutant: a reload stores the entries and leaves the timestamp alone
get_control_specs_cached_no_stamp(cache, at, now, reload) ==
    IF CacheFresh(cache, at, now)
    THEN [reloaded |-> FALSE, raised |-> FALSE, ret |-> Val(cache),
          cache |-> cache, at |-> at]
    ELSE IF reload.raised
    THEN [reloaded |-> TRUE, raised |-> TRUE, ret |-> <<>>,
          cache |-> cache, at |-> at]
    ELSE [reloaded |-> TRUE, raised |-> FALSE, ret |-> reload.specs,
          cache |-> Some(reload.specs), at |-> at]

\* _get_control_specs_cached(): the value returned (or the raise) and the
\* globals after the call; reload is what ReloadSpecs would give now
get_control_specs_cached(cache, at, now, reload) ==
    IF CacheFresh(cache, at, now)
    THEN [reloaded |-> FALSE, raised |-> FALSE, ret |-> Val(cache),
          cache |-> cache, at |-> at]
    ELSE IF reload.raised
    THEN [reloaded |-> TRUE, raised |-> TRUE, ret |-> <<>>,
          cache |-> cache, at |-> at]
    ELSE [reloaded |-> TRUE, raised |-> FALSE, ret |-> reload.specs,
          cache |-> Some(reload.specs), at |-> Some(now)]

-----------------------------------------------------------------------------
(* The outside world: catalog rows, documents and source outcomes *)

c1 == Str(<<"1">>)
c2 == Str(<<"2">>)
c3 == Str(<<"3">>)

RowA         == Obj(c1, Str(<<"a">>), Str(<<"x", " ", " ", "y">>))
RowB         == Obj(c2, Str(<<"b">>), Str(<<"y">>))
RowNoId      == Obj(Absent, Str(<<"a">>), Str(<<"x">>))
RowNullCid   == Obj(c3, Null, Str(<<"x">>))
RowBlankCid  == Obj(c3, Str(<<" ">>), Str(<<"x">>))
RowBlankSpec == Obj(c3, Str(<<"a">>), Str(<<" ">>))
RowMissing   == Obj(c3, Absent, Absent)
RowEmptyCid  == Obj(c3, Str(<<>>), Str(<<"x">>))

Docs ==
    { ListDoc(<<>>), ListDoc(<<RowA>>), ListDoc(<<RowA, RowB>>), ListDoc(<<RowNoId>>),
      ListDoc(<<RowNullCid>>), ListDoc(<<RowBlankCid, RowB>>), ListDoc(<<RowBlankSpec>>),
      ListDoc(<<RowMissing, RowEmptyCid>>), ListDoc(<<Scalar>>), ListDoc(<<RowA, Scalar>>),
      DictDoc, EmptyDictDoc, NullDoc, NumberDoc }

HttpOutcomes == {HttpNone, HttpEmpty, HttpNonJson} \cup {HttpJson(d) : d \in Docs}
FileOutcomes == {FileMissing, FileUnreadable, FileMalformed} \cup {FileJson(d) : d \in Docs}
FileNotAsked == [kind |-> "notasked", doc |-> NullDoc]

\* The worlds a reload can meet: a source that the code does not consult
\* in a world is left unspecified there (NotAsked).
PrimaryChoices(conf) == IF conf THEN HttpOutcomes ELSE {NotAsked}

RpcChoices(im, conf, p) ==
    IF im = "agents" /\ conf /\ AgentsNeedsRpc(p) THEN HttpOutcomes ELSE {NotAsked}

LocalChoices(im, conf, p, r) ==
    LET remote == load_specs_from_supabase(im, conf, p, r)
    IN  IF remote.raised \/ ListTruthy(remote.val) THEN {FileNotAsked} ELSE FileOutcomes

Envs(im) ==
    UNION { UNION { UNION { { Env(conf, p, r, l) : l \in LocalChoices(im, conf, p, r) }
                            : r \in RpcChoices(im, conf, p) }
                    : p \in PrimaryChoices(conf) }
            : conf \in BOOLEAN }

ReloadsAgents == { ReloadSpecs("agents", env) : env \in Envs("agents") }
ReloadsHitl   == { ReloadSpecs("hitl", env) : env \in Envs("hitl") }
Reloads(im)   == IF im = "agents" THEN ReloadsAgents ELSE ReloadsHitl
NoReload      == [raised |-> FALSE, specs |-> <<>>, contacted |-> <<>>,
                  remote |-> "notasked", loc |-> "notasked", rows |-> <<>>]

-----------------------------------------------------------------------------
(* Calendar dates and date strings *)

IsLeap(y) == (y % 4 = 0 /\ y % 100 # 0) \/ y % 400 = 0

DaysInMonth(y, m) ==
    IF m = 2 THEN (IF IsLeap(y) THEN 29 ELSE 28)
    ELSE IF m \in {4, 6, 9, 11} THEN 30 ELSE 31

\* _to_date_safe: date(y, m, d), None (<<>>) on ValueError
to_date_safe(y, m, d) ==
    IF y >= 1 /\ y <= 9999 /\ m >= 1 /\ m <= 12 /\ d >= 1 /\ d <= DaysInMonth(y, m)
    THEN <<y, m, d>> ELSE <<>>

\* mutant: the comparison excludes the boundary itself
DateLE_strict(a, b) ==
    \/ a[1] < b[1]
    \/ a[1] = b[1] /\ a[2] < b[2]
    \/ a[1] = b[1] /\ a[2] = b[2] /\ a[3] < b[3]

\* a <= b on dates
DateLE(a, b) ==
    \/ a[1] < b[1]
    \/ a[1] = b[1] /\ a[2] < b[2]
    \/ a[1] = b[1] /\ a[2] = b[2] /\ a[3] <= b[3]

\* A string holding at most one date-like match. fmt names the form, g1..g3
\* are the numbers of its three groups in the order they are written:
\*   "iso_date"     YYYY-MM-DD, zero padded          (fromisoformat and Family A)
\*   "iso_datetime" YYYY-MM-DDTHH:MM:SS, optional Z  (fromisoformat only: no \b after DD)
\*   "ymd"          YYYY-M-D otherwise               (Family A)
\*   "ymd_sep"      YYYY/M/D or YYYY.M.D             (Family A)
\*   "mdy"          M[-/.]D[-/.]YYYY                 (Family B)
\*   "mon_comma"    MonthName D, YYYY                (g1 = _MONTHS.get(name), 0 if absent)
\*   "mon_plain"    MonthName D[st|nd|rd|th] YYYY    (g1 likewise)
\*   "dmy_name"     D MonthName YYYY                 (g2 the month's number)
\*   "junk"         no match
DateStr(fmt, g1, g2, g3) == [fmt |-> fmt, g1 |-> g1, g2 |-> g2, g3 |-> g3]
Junk == DateStr("junk", 0, 0, 0)

\* _parse_any_date
parse_any_date(x) ==
    CASE x.fmt \in {"iso_date", "ymd", "ymd_sep"} -> to_date_safe(x.g1, x.g2, x.g3)
      [] x.fmt = "mdy" -> to_date_safe(x.g3, x.g1, x.g2)
      [] x.fmt \in {"mon_comma", "mon_plain"} ->
            IF x.g1 = 0 THEN <<>> ELSE to_date_safe(x.g3, x.g1, x.g2)
      [] OTHER -> <<>>

\* _iso_date: date.isoformat()
iso_date(d) == DateStr("iso_date", d[1], d[2], d[3])

\* check_date_range._parse_boundary: datetime.fromisoformat(x.replace("Z", "")).date(),
\* on any exception _parse_any_date(x)
parse_boundary(x) ==
    IF x.fmt \in {"iso_date", "iso_datetime"} /\ to_date_safe(x.g1, x.g2, x.g3) # <<>>
    THEN to_date_safe(x.g1, x.g2, x.g3)
    ELSE parse_any_date(x)

\* mutant: the boundaries are examined before the date
check_date_range_boundaries_first(date_str, start, end) ==
    LET parsed == parse_any_date(date_str)
        s == parse_boundary(start)
        e == parse_boundary(end)
    IN  IF s = <<>> \/ e = <<>>
        THEN [within |-> FALSE,
              parsed_date |-> IF parsed = <<>> THEN None ELSE Some(iso_date(parsed)),
              reason |-> "invalid range"]
        ELSE IF parsed = <<>>
        THEN [within |-> FALSE, parsed_date |-> None, reason |-> "unrecognized date format"]
        ELSE LET ok == DateLE(s, parsed) /\ DateLE(parsed, e)
             IN  [within |-> ok, parsed_date |-> Some(iso_date(parsed)),
                  reason |-> IF ok THEN "in range" ELSE "out of range"]

\* check_date_range(date_str, start, end)
check_date_range(date_str, start, end) ==
    LET parsed == parse_any_date(date_str)
        s == parse_boundary(start)
        e == parse_boundary(end)
    IN  IF parsed = <<>>
        THEN [within |-> FALSE, parsed_date |-> None, reason |-> "unrecognized date format"]
        ELSE IF s = <<>> \/ e = <<>>
        THEN [within |-> FALSE, parsed_date |-> Some(iso_date(parsed)), reason |-> "invalid range"]
        ELSE LET ok == DateLE(s, parsed) /\ DateLE(parsed, e)
             IN  [within |-> ok, parsed_date |-> Some(iso_date(parsed)),
                  reason |-> IF ok THEN "in range" ELSE "out of range"]

-----------------------------------------------------------------------------
(* Text-generation date extraction and the date guard pipeline *)

\* What the text-generation service does on the date call:
\*   "ctor_raise"   get_default_llm() raises (outside any try)
\*   "invoke_raise" llm.invoke raises or times out
\*   "content"      a reply; json tells how json.loads(txt) ends: "obj" (a dict
\*                  with date, quote, reason), "str" (a JSON string), "other",
\*                  "nonjson" (date is then the whole text)
\* quote is "none" (no quote), "in_text" or "not_in_text"; qdate is the quote
\* read as a date string.
LlmDate(kind, json, date, quote, qdate, reason) ==
    [kind |-> kind, json |-> json, date |-> date, quote |-> quote, qdate |-> qdate,
     reason |-> reason]

Extracted(date, reason) == [raised |-> FALSE, date |-> date, reason |-> reason]

\* _llm_extract_date_core
llm_extract_date_core(llm) ==
    IF llm.kind = "ctor_raise" THEN [raised |-> TRUE, date |-> None, reason |-> ""]
    ELSE IF llm.kind = "invoke_raise" THEN Extracted(None, "llm_error")
    ELSE LET date_str == IF llm.json \in {"obj", "str", "nonjson"} THEN llm.date ELSE None
             quote    == IF llm.json = "obj" THEN llm.quote ELSE "none"
             reason   == CASE llm.json = "obj" ->
                                 (IF llm.reason = "" THEN "json_result" ELSE llm.reason)
                           [] llm.json = "str" -> "string_in_json"
                           [] llm.json = "other" -> "unexpected_json_type"
                           [] OTHER -> "string_result"
             d1       == IF IsNone(date_str) THEN <<>> ELSE parse_any_date(Val(date_str))
             d2       == IF d1 = <<>> /\ quote # "none" THEN parse_any_date(llm.qdate) ELSE d1
         IN  IF quote = "not_in_text" THEN Extracted(None, "quote_not_in_text")
             ELSE Extracted(IF d2 = <<>> THEN None ELSE Some(iso_date(d2)), reason)

\* date_guard_pipeline(text, date_start, date_end); reason is the list of the
\* parts joined by "; "
date_guard_pipeline(llm, date_start, date_end) ==
    LET extracted == llm_extract_date_core(llm)
        llm_part  == <<"llm", extracted.reason>>
    IN  IF extracted.raised
        THEN [raised |-> TRUE, status |-> "", parsed_date |-> None, reason |-> <<>>]
        ELSE IF IsNone(extracted.date)
        THEN [raised |-> FALSE, status |-> "FAIL", parsed_date |-> None,
              reason |-> <<llm_part>>]
        ELSE LET r == check_date_range(Val(extracted.date), date_start, date_end)
             IN  [raised |-> FALSE,
                  status |-> IF r.within THEN "PASS" ELSE "FAIL",
                  parsed_date |-> r.parsed_date,
                  reason |-> <<llm_part, <<"range", r.reason>> >>]

-----------------------------------------------------------------------------
(* Control assigner *)

\* dict[k] = v
Put(f, k, v) == [x \in DOMAIN f \cup {k} |-> IF x = k THEN v ELSE f[x]]
EmptyDict == [x \in {} |-> <<>>]

\* Python truthiness of an Optional[str]: None and "" are falsy
StrTruthy(o) == ~IsNone(o) /\ Val(o) # <<>>

\* the loop of _control_assigner_core that fills id_to_code
RECURSIVE id_to_code(_)
id_to_code(specs) ==
    IF specs = <<>> THEN EmptyDict
    ELSE LET n    == Len(specs)
             row  == specs[n]
             rest == id_to_code(SubSeq(specs, 1, n - 1))
         IN  IF row.control_id # <<>> /\ collapse_ws(row.specification) # <<>> /\ row.id # <<>>
             THEN Put(rest, row.id, row.control_id)
             ELSE rest

\* the loop of _control_assigner_core that fills code_to_id
RECURSIVE code_to_id(_)
code_to_id(specs) ==
    IF specs = <<>> THEN EmptyDict
    ELSE LET n    == Len(specs)
             row  == specs[n]
             rest == code_to_id(SubSeq(specs, 1, n - 1))
         IN  IF row.control_id # <<>> /\ collapse_ws(row.specification) # <<>> /\ row.id # <<>>
             THEN Put(rest, row.control_id, row.id)
             ELSE rest

\* A reply of the text-generation service to the control assigner: the call
\* raises, the text holds no JSON object, or it holds an object whose
\* control_id and id are Optional[str]
LlmAssign(kind, ctrl_id, rid, rationale) ==
    [kind |-> kind, control_id |-> ctrl_id, id |-> rid, rationale |-> rationale]

Assigned(ctrl_id, rid, rationale) ==
    [control_id |-> ctrl_id, id |-> rid, rationale |-> rationale]

\* _control_assigner_core, from "Normalize keys" to the return
validate_choice(specs, obj) ==
    LET i2c   == id_to_code(specs)
        c2i   == code_to_id(specs)
        ctrl0 == obj.control_id
        rid0  == obj.id
        ctrl  == IF StrTruthy(rid0) /\ ~StrTruthy(ctrl0) /\ Val(rid0) \in DOMAIN i2c
                 THEN Some(i2c[Val(rid0)]) ELSE ctrl0
        rid   == IF StrTruthy(ctrl) /\ ~StrTruthy(rid0) /\ Val(ctrl) \in DOMAIN c2i
                 THEN Some(c2i[Val(ctrl)]) ELSE rid0
        valid == \/ StrTruthy(rid) /\ Val(rid) \in DOMAIN i2c
                 \/ StrTruthy(ctrl) /\ Val(ctrl) \in DOMAIN c2i
    IN  IF valid THEN Assigned(ctrl, rid, obj.rationale)
        ELSE Assigned(None, None, "not_in_catalog")

\* the except branch of _control_assigner_core
assign_error(msg) == Assigned(None, None, msg)

\* mutant: an unparseable first reply is not retried
needs_retry_never(resp) == FALSE

\* whether the first reply makes _control_assigner_core retry: obj is None
needs_retry(resp) == resp.kind = "nonjson"

\* the outcome of the try block once the first reply is in and no retry is due
after_first_reply(specs, resp) ==
    IF resp.kind = "raise" THEN assign_error("error: llm call failed")
    ELSE validate_choice(specs, resp)

\* the outcome of the try block once the retry's reply is in
after_retry_reply(specs, resp) ==
    IF resp.kind = "raise" THEN assign_error("error: llm call failed")
    ELSE IF resp.kind = "nonjson" THEN assign_error("error: non_json_output")
    ELSE validate_choice(specs, resp)

-----------------------------------------------------------------------------
(* run_supervisor *)

SnippetMaxChars == 600

\* str.rfind(". ", 0, max_chars) + 1: the 1-based position of the last ". "
\* that ends within the first max_chars characters, 0 when there is none
RFindDotSpace(body, max_chars) ==
    LET hits == { i \in 1..(max_chars - 1) :
                    i + 1 <= Len(body) /\ body[i] = "." /\ body[i + 1] = " " }
    IN  IF hits = {} THEN 0 ELSE CHOOSE i \in hits : \A j \in hits : j <= i

\* run_supervisor._make_actions_snippet
make_actions_snippet(text) ==
    LET body == collapse_ws(text)
        dot  == RFindDotSpace(body, SnippetMaxChars)
        cut  == IF dot = 0 THEN SnippetMaxChars ELSE dot - 1
    IN  IF Len(body) <= SnippetMaxChars THEN body
        ELSE Strip(SubSeq(body, 1, cut))

\* mutant: only a missing date returns early
short_circuits_no_date(dc) == IsNone(dc.parsed_date)

\* mutant: the status is compared in the stage engine's lower case
short_circuits_lowercase(dc) == dc.status = "fail"

\* `if date_check.get("status") != "PASS"`: the early return
short_circuits(dc) == dc.status # "PASS"

\* the dict returned on the early return
failed_result(dc) ==
    [date_check |-> dc, actions_summary |-> <<>>, assigned_control_id |-> None,
     rationale |-> "date check failed"]

\* the dict returned at the end of run_supervisor
final_result(dc, summary, assign_obj) ==
    [date_check |-> dc, assigned_control_id |-> assign_obj.control_id,
     rationale |-> assign_obj.rationale]

-----------------------------------------------------------------------------
(* Time *)

MaxClock == 1501
Ticks == {300}

\* time passes between two calls
Tick ==
    /\ \E d \in Ticks : clock + d <= MaxClock /\ clock' = clock + d
    /\ UNCHANGED <<fnVars, hitlVars, impl, cacheVars, supVars>>

-----------------------------------------------------------------------------
(* A call of _get_control_specs_cached and what it leaves behind *)

NoCall ==
    [valid |-> FALSE, reloaded |-> FALSE, raised |-> FALSE, ret |-> <<>>, now |-> 0,
     cacheBefore |-> None, atBefore |-> None, loadBefore |-> None, reload |-> NoReload]

\* The globals and the history after a call that meets `reload`
CallGetSpecs(reload) ==
    LET r == get_control_specs_cached(SPECS_CACHE, SPECS_CACHE_AT, clock, reload)
    IN  /\ SPECS_CACHE' = r.cache
        /\ SPECS_CACHE_AT' = r.at
        /\ call' = [valid |-> TRUE, reloaded |-> r.reloaded, raised |-> r.raised,
                    ret |-> r.ret, now |-> clock,
                    cacheBefore |-> SPECS_CACHE, atBefore |-> SPECS_CACHE_AT,
                    loadBefore |-> lastLoad,
                    reload |-> IF r.reloaded THEN reload ELSE NoReload]
        /\ lastLoad' = IF r.reloaded /\ ~r.raised /\ r.ret # <<>>
                       THEN Some([at |-> clock, specs |-> r.ret])
                       ELSE lastLoad
        /\ UNCHANGED threads

\* the outcomes a call can meet now: none is consulted on a fresh cache
ReloadChoices ==
    IF CacheFresh(SPECS_CACHE, SPECS_CACHE_AT, clock) THEN {NoReload} ELSE Reloads(impl)

\* get_control_specs tool (agents) / a caller of the cache (hitl)
GetSpecs ==
    /\ pc = "idle"
    /\ \E reload \in ReloadChoices : CallGetSpecs(reload)
    /\ UNCHANGED <<fnVars, hitlVars, impl, clock, supVars>>

NoInput == [text |-> <<>>, date_start |-> Junk, date_end |-> Junk]

\* the threads of a host that calls the cache without a lock
Threads == {1, 2}

\* a thread that is in no call: its locals now and specs, what its last call
\* returned, and the history of that call (did it reload, was the other
\* thread reloading at the same time)
ThreadIdle ==
    [pc |-> "idle", now |-> 0, specs |-> <<>>, ret |-> None, calls |-> 0,
     reloaded |-> FALSE, overlapped |-> FALSE]

InitCache ==
    /\ impl \in {"agents", "hitl"}
    /\ clock = 1
    /\ SPECS_CACHE = None
    /\ SPECS_CACHE_AT = None
    /\ call = NoCall
    /\ lastLoad = None
    /\ threads = [t \in Threads |-> ThreadIdle]

NoAssign == [specs |-> <<>>, replies |-> <<>>, out |-> None]
NoDateCheck == [status |-> "", parsed_date |-> None, reason |-> <<>>]

InitSup ==
    /\ pc = "idle"
    /\ inp = NoInput
    /\ date_check = NoDateCheck
    /\ actions_summary = None
    /\ assign = NoAssign
    /\ result = <<>>
    /\ trace = <<>>

\* no date function has been called
NoFnInput == [kind |-> "none"]
NoFnOutput == [fn |-> "none"]

InitFn ==
    /\ fn_in = NoFnInput
    /\ fn_out = NoFnOutput

\* stdin when nothing is read from it
NoStdin == [kind |-> "empty"]

\* no hitl.py command is running
InitNoCommand ==
    /\ argv = <<>>
    /\ stdin = NoStdin
    /\ stdout = <<>>
    /\ stderr = ""
    /\ exit_code = None
    /\ session = <<>>

Init == InitCache /\ InitSup /\ InitFn /\ InitNoCommand

NextCache == Tick \/ GetSpecs

SpecCache == Init /\ [][NextCache]_vars

-----------------------------------------------------------------------------
(* One run_supervisor invocation (supervisor_cli.py runs one per process) *)

Texts == { <<>>, <<"a">>, <<" ", "a", " ", " ", "b", ".", " ">> }

d0115 == DateStr("iso_date", 2024, 1, 15)

Starts == { DateStr("iso_date", 2024, 1, 1), DateStr("iso_datetime", 2024, 1, 1), Junk }
Ends   == { DateStr("iso_date", 2024, 1, 31), DateStr("mdy", 1, 31, 2024),
            DateStr("iso_date", 2024, 2, 30) }

LlmDates ==
    { LlmDate("ctor_raise", "other", None, "none", Junk, ""),
      LlmDate("invoke_raise", "other", None, "none", Junk, ""),
      LlmDate("content", "obj", Some(d0115), "none", Junk, ""),
      LlmDate("content", "obj", Some(DateStr("iso_date", 2024, 1, 1)), "none", Junk, "r"),
      LlmDate("content", "obj", Some(DateStr("ymd", 2024, 1, 31)), "in_text", Junk, ""),
      LlmDate("content", "obj", Some(DateStr("iso_date", 2024, 2, 1)), "none", Junk, ""),
      LlmDate("content", "obj", Some(DateStr("iso_date", 2023, 12, 31)), "none", Junk, ""),
      LlmDate("content", "obj", Some(DateStr("iso_date", 2024, 2, 30)), "none", Junk, ""),
      LlmDate("content", "obj", Some(d0115), "not_in_text", Junk, ""),
      LlmDate("content", "obj", None, "in_text", DateStr("mon_comma", 1, 15, 2024), ""),
      LlmDate("content", "obj", None, "none", Junk, ""),
      LlmDate("content", "str", Some(DateStr("mdy", 1, 15, 2024)), "none", Junk, ""),
      LlmDate("content", "other", None, "none", Junk, ""),
      LlmDate("content", "nonjson", Some(DateStr("mon_plain", 0, 15, 2024)), "none", Junk, ""),
      LlmDate("content", "nonjson", Some(DateStr("mon_plain", 2, 1, 2024)), "none", Junk, "") }

Proposals == { None, Some(<<>>), Some(<<"a">>), Some(<<"b">>), Some(<<"z">>) }
ProposedIds == { None, Some(<<"1">>), Some(<<"2">>), Some(<<"9">>) }

LlmAssigns ==
    { LlmAssign("raise", None, None, ""), LlmAssign("nonjson", None, None, "") }
    \cup { LlmAssign("obj", c, i, "because") : c \in Proposals, i \in ProposedIds }

Step(name) == trace' = Append(trace, name)

\* the call: run_supervisor(text, date_start, date_end)
SupStart ==
    /\ pc = "idle"
    /\ impl = "agents"
    /\ \E t \in Texts, s \in Starts, e \in Ends :
          inp' = [text |-> t, date_start |-> s, date_end |-> e]
    /\ pc' = "date_guard"
    /\ UNCHANGED <<fnVars, hitlVars, impl, clock, cacheVars, date_check, actions_summary, assign, result, trace>>

\* Step 1: date_guard_pipeline, and the early return when it is not PASS
SupDateGuard ==
    /\ pc = "date_guard"
    /\ \E llm \in LlmDates :
          LET r  == date_guard_pipeline(llm, inp.date_start, inp.date_end)
              dc == [status |-> r.status, parsed_date |-> r.parsed_date, reason |-> r.reason]
          IN  IF r.raised
              THEN /\ pc' = "raised"
                   /\ UNCHANGED <<date_check, result, trace>>
              ELSE /\ date_check' = dc
                   /\ Step("date_guard")
                   /\ IF short_circuits(dc)
                      THEN pc' = "done" /\ result' = failed_result(dc)
                      ELSE pc' = "actions" /\ UNCHANGED result
    /\ UNCHANGED <<fnVars, hitlVars, impl, clock, cacheVars, inp, actions_summary, assign>>

\* Step 2: the actions snippet
SupActions ==
    /\ pc = "actions"
    /\ actions_summary' = Some(make_actions_snippet(inp.text))
    /\ Step("action_summary")
    /\ pc' = "assign_specs"
    /\ UNCHANGED <<fnVars, hitlVars, impl, clock, cacheVars, inp, date_check, assign, result>>

\* Step 3, _control_assigner_core up to the catalog: get_default_llm(), which
\* may raise, then _get_control_specs_cached(), both outside the try block
SupAssignSpecs ==
    /\ pc = "assign_specs"
    /\ \/ /\ pc' = "raised"
          /\ Step("control_assigner")
          /\ UNCHANGED <<cacheVars, assign>>
       \/ \E reload \in ReloadChoices :
             LET r == get_control_specs_cached(SPECS_CACHE, SPECS_CACHE_AT, clock, reload)
             IN  /\ CallGetSpecs(reload)
                 /\ trace' = trace \o <<"control_assigner", "catalog_read">>
                 /\ IF r.raised
                    THEN pc' = "raised" /\ UNCHANGED assign
                    ELSE pc' = "assign_llm" /\ assign' = [assign EXCEPT !.specs = r.ret]
    /\ UNCHANGED <<fnVars, hitlVars, impl, clock, inp, date_check, actions_summary, result>>

\* the first llm.invoke of the try block
SupAssignInvoke ==
    /\ pc = "assign_llm"
    /\ \E resp \in LlmAssigns :
          /\ Step("llm_call")
          /\ IF needs_retry(resp)
             THEN /\ pc' = "assign_retry"
                  /\ assign' = [assign EXCEPT !.replies = Append(@, resp.kind)]
             ELSE /\ pc' = "assign_return"
                  /\ assign' = [assign EXCEPT !.replies = Append(@, resp.kind),
                                              !.out = Some(after_first_reply(assign.specs, resp))]
    /\ UNCHANGED <<fnVars, hitlVars, impl, clock, cacheVars, inp, date_check, actions_summary, result>>

\* the retry with the JSON-only instruction
SupAssignRetry ==
    /\ pc = "assign_retry"
    /\ \E resp \in LlmAssigns :
          /\ Step("llm_retry")
          /\ pc' = "assign_return"
          /\ assign' = [assign EXCEPT !.replies = Append(@, resp.kind),
                                      !.out = Some(after_retry_reply(assign.specs, resp))]
    /\ UNCHANGED <<fnVars, hitlVars, impl, clock, cacheVars, inp, date_check, actions_summary, result>>

\* run_control_assigner returns json.dumps(obj); run_supervisor reads it back
\* with json.loads (the dict holds strings and nulls only) and returns
SupReturn ==
    /\ pc = "assign_return"
    /\ result' = final_result(date_check, actions_summary, Val(assign.out))
    /\ pc' = "done"
    /\ UNCHANGED <<fnVars, hitlVars, impl, clock, cacheVars, inp, date_check, actions_summary, assign, trace>>

InitAgents == Init /\ impl = "agents"

Next ==
    \/ SupStart \/ SupDateGuard \/ SupActions \/ SupAssignSpecs
    \/ SupAssignInvoke \/ SupAssignRetry \/ SupReturn

Spec == InitAgents /\ [][Next]_vars

-----------------------------------------------------------------------------
(* Claims *)

Returned == pc = "done"

\* C1: whenever the date check's status is not PASS, run_supervisor returns
\* assigned_control_id = null and rationale = "date check failed"; a non-null
\* assigned_control_id is only returned together with date_check.status = PASS.
C1_NoControlUnlessPass ==
    Returned =>
        /\ result.date_check = date_check
        /\ result.date_check.status # "PASS" =>
              /\ result.assigned_control_id = None
              /\ result.rationale = "date check failed"
        /\ result.assigned_control_id # None => result.date_check.status = "PASS"

\* C1 witness: a run returned after a date that parsed but lies outside the window
C1_Witness ==
    /\ Returned
    /\ result.date_check.status = "FAIL"
    /\ result.date_check.parsed_date # None
    /\ result.assigned_control_id = None

LaterSteps == {"action_summary", "control_assigner", "catalog_read", "llm_call", "llm_retry"}

\* C2: the date check completes before the action-summary and control-match
\* steps start, and when the date status is not PASS none of them (action
\* summary, catalog read, text-generation call of the assigner) is executed.
C2_DateGuardFirst ==
    /\ \A i \in 1..Len(trace) :
          trace[i] \in LaterSteps =>
              /\ \E j \in 1..(i - 1) : trace[j] = "date_guard"
              /\ date_check.status = "PASS"
    /\ pc \in {"actions", "assign_specs", "assign_llm", "assign_retry", "assign_return"}
          => date_check.status = "PASS"
    /\ (call.valid \/ assign.replies # <<>> \/ actions_summary # None)
          => date_check.status = "PASS"

\* C2 witness: a run that ended on a failed date check, having done nothing else
C2_Witness ==
    /\ Returned
    /\ date_check.status = "FAIL"
    /\ trace = <<"date_guard">>
    /\ ~call.valid

\* A load counts as successful when it produced specs: the code tells a source
\* that delivered no usable spec from a source that failed in no way (`or`).
LoadedBefore == ~IsNone(call.loadBefore)
ElapsedSinceLoad == call.now - Val(call.loadBefore).at

BothSourcesFailed ==
    /\ call.valid /\ call.reloaded /\ ~call.raised
    /\ call.reload.remote = "none"
    /\ call.reload.loc = "none"

\* C4: when a getSpecs call has to reload and both the remote source and the
\* local file fail, it returns an empty list and the cache timestamp has the
\* same value after the call as before it.
C4_FailedReloadKeepsTimestamp ==
    BothSourcesFailed =>
        /\ call.ret = <<>>
        /\ SPECS_CACHE_AT = call.atBefore

\* C5: the cache is mutated only by a successful reload: after a catalog was
\* loaded and has expired, a call whose reload fails from both sources leaves
\* the cached entries equal to the last successfully loaded catalog.
C5_FailedReloadKeepsEntries ==
    (BothSourcesFailed /\ LoadedBefore /\ call.cacheBefore = Some(Val(call.loadBefore).specs))
        => SPECS_CACHE = call.cacheBefore

\* C6: getSpecs never propagates an error to its caller, whatever the remote
\* endpoints and the local file deliver: every call returns a list.
C6_GetSpecsNeverRaises ==
    call.valid => ~call.raised

\* a source row that carries a non-blank string control_id and specification
Usable(row) ==
    /\ row.obj
    /\ row.control_id.k = "str" /\ Strip(row.control_id.s) # <<>>
    /\ row.specification.k = "str" /\ Strip(row.specification.s) # <<>>

\* C7: every ControlSpec returned by getSpecs (and cached) has a non-empty
\* controlCode and specificationText; source rows whose control_id or
\* specification is absent, null, empty or whitespace only are discarded.
C7_UnusableRowsDiscarded ==
    (call.valid /\ call.reloaded /\ ~call.raised) =>
        /\ \A i \in 1..Len(call.ret) :
              call.ret[i].control_id # <<>> /\ call.ret[i].specification # <<>>
        /\ Len(call.ret) =
              Cardinality({ i \in 1..Len(call.reload.rows) : Usable(call.reload.rows[i]) })
        /\ SPECS_CACHE = Some(call.ret)

\* C8: the result of a run that was not short-circuited (date status PASS)
\* contains an actions summary besides date_check, assigned_control_id and
\* rationale.
C8_PassResultHasSummary ==
    (Returned /\ result.date_check.status = "PASS") =>
        {"date_check", "actions_summary", "assigned_control_id", "rationale"}
            \subseteq DOMAIN result

InCatalog(specs, code) == \E i \in 1..Len(specs) : specs[i].control_id = code

\* C9: every result of the control-assignment step with a non-null control_id
\* names a controlCode of the catalog loaded for that call, whatever control_id
\* and record id were proposed; a proposal outside the catalog yields
\* {control_id: null, rationale: "not_in_catalog"}.
C9_AssignedControlInCatalog ==
    pc = "assign_return" =>
        LET out == Val(assign.out)
        IN  out.control_id # None => InCatalog(assign.specs, Val(out.control_id))

\* C10: an unparseable reply to the control assigner is retried exactly once
\* (at most two text-generation calls per assignment); if the retry is
\* unparseable too, the step yields a null control with an error rationale
\* and the supervisor still returns a result whose date_check is unchanged.
C10_OneRetryThenError ==
    /\ Len(assign.replies) <= 2
    /\ Len(assign.replies) = 2 => assign.replies[1] = "nonjson"
    /\ (pc \in {"assign_return", "done"} /\ assign.replies # <<>>
            /\ assign.replies[1] = "nonjson") => Len(assign.replies) = 2
    /\ (pc \in {"assign_return", "done"} /\ assign.replies = <<"nonjson", "nonjson">>) =>
          /\ Val(assign.out).control_id = None
          /\ Val(assign.out).rationale = "error: non_json_output"
    /\ (Returned /\ assign.replies = <<"nonjson", "nonjson">>) =>
          /\ result.assigned_control_id = None
          /\ result.rationale = "error: non_json_output"
          /\ result.date_check = date_check
          /\ result.date_check.status = "PASS"

\* C10 witness: a run returned after two unparseable replies
C10_Witness ==
    /\ Returned
    /\ assign.replies = <<"nonjson", "nonjson">>
    /\ trace = <<"date_guard", "action_summary", "control_assigner", "catalog_read",
                 "llm_call", "llm_retry">>

\* C11: unavailability of the text-generation capability or of the catalog
\* source never surfaces to the caller of the supervisor: whether the client
\* cannot be constructed, the call raises or times out, or the catalog fetch
\* fails, run_supervisor returns a result and does not raise.
C11_SupervisorNeverRaises ==
    pc # "raised"

-----------------------------------------------------------------------------
(* hitl.py: the date guard of the stage engine *)

\* `[int(x) for x in str(s).split("-")[:3]]` followed by date(y, m, d): the
\* date, <<>> when either raises. Only a string of three "-" separated
\* numbers survives the split; a month-first string puts its year where the
\* day is expected.
split_date(x) ==
    IF x.fmt \in {"iso_date", "ymd", "mdy"} THEN to_date_safe(x.g1, x.g2, x.g3) ELSE <<>>

Guard(status, parsed_date, reason) ==
    [status |-> status, parsed_date |-> parsed_date, reason |-> reason]

\* mutant: a window that does not parse fails the check
stage_date_guard_bad_window_fails(evidence_date, wstart, wend) ==
    IF IsNone(evidence_date) THEN Guard("unknown", None, "No evidence_date provided")
    ELSE LET ev == split_date(Val(evidence_date))
         IN  IF ev = <<>> THEN Guard("unknown", None, "Invalid date format")
             ELSE IF IsNone(wstart) \/ IsNone(wend)
             THEN Guard("unknown", Some(iso_date(ev)), "No window provided")
             ELSE LET ws == split_date(Val(wstart))
                      we == split_date(Val(wend))
                  IN  IF ws # <<>> /\ we # <<>> /\ DateLE(ws, ev) /\ DateLE(ev, we)
                      THEN Guard("pass", Some(iso_date(ev)), "Within window (inclusive)")
                      ELSE Guard("fail", Some(iso_date(ev)), "Outside window")

\* _stage_date_guard(payload): evidence_date, window.start and window.end are
\* Optional date strings, None standing for an absent, null or empty value
stage_date_guard(evidence_date, wstart, wend) ==
    IF IsNone(evidence_date) THEN Guard("unknown", None, "No evidence_date provided")
    ELSE LET ev == split_date(Val(evidence_date))
         IN  IF ev = <<>> THEN Guard("unknown", None, "Invalid date format")
             ELSE IF IsNone(wstart) \/ IsNone(wend)
             THEN Guard("unknown", Some(iso_date(ev)), "No window provided")
             ELSE LET ws == split_date(Val(wstart))
                      we == split_date(Val(wend))
                  IN  IF ws = <<>> \/ we = <<>>
                      THEN Guard("unknown", Some(iso_date(ev)), "Invalid window")
                      ELSE IF DateLE(ws, ev) /\ DateLE(ev, we)
                      THEN Guard("pass", Some(iso_date(ev)), "Within window (inclusive)")
                      ELSE Guard("fail", Some(iso_date(ev)), "Outside window")

-----------------------------------------------------------------------------
(* The date functions applied to arguments drawn from bounded sets *)

\* consecutive days around a year end and a leap day
Days ==
    { <<2023, 12, 30>>, <<2023, 12, 31>>, <<2024, 1, 1>>, <<2024, 1, 2>>,
      <<2024, 2, 28>>, <<2024, 2, 29>>, <<2024, 3, 1>> }

IsoDays == { DateStr("iso_date", d[1], d[2], d[3]) : d \in Days }

\* strings that hold no date: no match, 30 February, 29 February of a common
\* year, month 13, an unknown month name
NotADate ==
    { Junk, DateStr("iso_date", 2024, 2, 30), DateStr("iso_date", 2023, 2, 29),
      DateStr("ymd", 2024, 13, 1), DateStr("mon_plain", 0, 1, 2024) }

\* dates written in the other forms
OtherForms ==
    { DateStr("mdy", 1, 1, 2024), DateStr("mon_comma", 2, 29, 2024),
      DateStr("ymd_sep", 2024, 1, 2), DateStr("ymd", 2024, 3, 1) }

DateArgs == IsoDays \cup OtherForms \cup NotADate

\* strings that hold no boundary: no match, a datetime on 30 February
NotABoundary == { Junk, DateStr("iso_datetime", 2024, 2, 30) }

BoundaryArgs ==
    IsoDays \cup NotABoundary
    \cup { DateStr("iso_datetime", 2024, 1, 1), DateStr("mdy", 3, 1, 2024) }

RangeInput(date_str, start, end) ==
    [kind |-> "range", date_str |-> date_str, start |-> start, end |-> end]

\* the arguments of a range check; None is an argument the stage engine
\* accepts (a missing payload key), the checker of the agents takes strings
RangeInputs ==
    { RangeInput(d, s, e) : d \in {None} \cup { Some(x) : x \in DateArgs },
                            s \in {None} \cup { Some(x) : x \in BoundaryArgs },
                            e \in {None} \cup { Some(x) : x \in BoundaryArgs } }

\* check_date_range(date_str, start, end), the tool of the agents
ApplyCheckDateRange ==
    /\ impl = "agents"
    /\ fn_in.kind = "range" /\ fn_out = NoFnOutput
    /\ ~IsNone(fn_in.date_str) /\ ~IsNone(fn_in.start) /\ ~IsNone(fn_in.end)
    /\ fn_out' = [fn |-> "check_date_range",
                  ret |-> check_date_range(Val(fn_in.date_str), Val(fn_in.start),
                                           Val(fn_in.end))]
    /\ UNCHANGED <<fn_in, hitlVars, impl, clock, cacheVars, supVars>>

\* date_guard_agent(evidence_date, window) = _stage_date_guard(payload)
ApplyStageDateGuard ==
    /\ impl = "hitl"
    /\ fn_in.kind = "range" /\ fn_out = NoFnOutput
    /\ fn_out' = [fn |-> "stage_date_guard",
                  ret |-> stage_date_guard(fn_in.date_str, fn_in.start, fn_in.end)]
    /\ UNCHANGED <<fn_in, hitlVars, impl, clock, cacheVars, supVars>>

-----------------------------------------------------------------------------
(* Texts as the date-like matches they hold, and the two extractors *)

\* One regex match: the string matched, its span <<start, end>> and the number
\* of context keywords in text[start - 80 : end + 40].lower()
Match(str, span, hits) == [str |-> str, span |-> span, hits |-> hits]

\* A text: its length and, per pattern family, the matches re.finditer yields,
\* in text order. extract_dates: a = YYYY[-/.]M[-/.]D, b = M[-/.]D[-/.]YYYY,
\* c = MonthName D, YYYY. _find_dates: a = (19|20)YY[-/]M[-/]D, b = MonthName D[,]
\* YYYY, c = D MonthName YYYY.
Text(len, a, b, c) == [len |-> len, a |-> a, b |-> b, c |-> c]

\* the date one match of a family of extract_dates stands for, <<>> if none
convert_agents(fam, m) ==
    CASE fam = "a" -> to_date_safe(m.str.g1, m.str.g2, m.str.g3)
      [] fam = "b" -> to_date_safe(m.str.g3, m.str.g1, m.str.g2)
      [] OTHER     -> IF m.str.g1 = 0 THEN <<>>
                      ELSE to_date_safe(m.str.g3, m.str.g1, m.str.g2)

\* one `for m in re.finditer(...)` loop of extract_dates: the dates appended
RECURSIVE found_agents(_, _)
found_agents(fam, ms) ==
    IF ms = <<>> THEN <<>>
    ELSE LET dt == convert_agents(fam, Head(ms))
         IN  (IF dt = <<>> THEN <<>> ELSE <<iso_date(dt)>>) \o found_agents(fam, Tail(ms))

\* mutant: duplicates are kept
uniq_keep_all(found) == found

\* "Deduplicate, preserve order"
RECURSIVE uniq(_)
uniq(found) ==
    IF found = <<>> THEN <<>>
    ELSE LET n == Len(found)
             r == uniq(SubSeq(found, 1, n - 1))
         IN  IF \E i \in 1..Len(r) : r[i] = found[n] THEN r ELSE Append(r, found[n])

\* extract_dates(text)
extract_dates(text) ==
    IF text.len = 0 THEN <<>>
    ELSE uniq(found_agents("a", text.a) \o found_agents("b", text.b)
              \o found_agents("c", text.c))

\* _safe_iso(y, m, d): Optional ISO string
safe_iso(y, m, d) ==
    IF to_date_safe(y, m, d) = <<>> THEN None ELSE Some(iso_date(to_date_safe(y, m, d)))

\* the ISO date one match of a family of _find_dates stands for
convert_hitl(fam, m) ==
    CASE fam = "iso" -> safe_iso(m.str.g1, m.str.g2, m.str.g3)
      [] fam = "mdy" -> safe_iso(m.str.g3, m.str.g1, m.str.g2)
      [] OTHER       -> safe_iso(m.str.g3, m.str.g2, m.str.g1)

\* one `for m in re.finditer(...)` loop of _find_dates: the dicts appended
RECURSIVE found_hitl(_, _)
found_hitl(fam, ms) ==
    IF ms = <<>> THEN <<>>
    ELSE LET iso == convert_hitl(fam, Head(ms))
         IN  (IF IsNone(iso) THEN <<>>
              ELSE << [iso |-> Val(iso), span |-> Head(ms).span, label |-> fam] >>)
             \o found_hitl(fam, Tail(ms))

\* "De-duplicate by iso, keep first occurrence"
RECURSIVE uniq_by_iso(_)
uniq_by_iso(out) ==
    IF out = <<>> THEN <<>>
    ELSE LET n == Len(out)
             r == uniq_by_iso(SubSeq(out, 1, n - 1))
         IN  IF \E i \in 1..Len(r) : r[i].iso = out[n].iso THEN r ELSE Append(r, out[n])

\* _find_dates(text)
find_dates(text) ==
    uniq_by_iso(found_hitl("iso", text.a) \o found_hitl("mdy", text.b)
                \o found_hitl("dmy", text.c))

-----------------------------------------------------------------------------
(* hitl.py: the evidence date chooser and the date stage *)

\* `hits = [kw for kw in keywords if kw in window]`, counted: the window of a
\* candidate is the one of the match that produced its span
KeywordHits(text, span) ==
    LET all == text.a \o text.b \o text.c
        i   == CHOOSE i \in 1..Len(all) : all[i].span = span
    IN  all[i].hits

Min(a, b) == IF a < b THEN a ELSE b

\* mutant: the first hit adds 0.2 and only the further hits add 0.1 each
score_further_hits(text, c) ==
    LET hits == KeywordHits(text, c.span)
    IN  500 + (IF hits > 0 THEN 200 + 100 * Min(3, hits - 1) ELSE 0) + (c.iso.g1 - 2000)

\* The score of a candidate in thousandths: 0.5, plus 0.2 + 0.1 * min(3, hits)
\* when there is a hit, plus (year - 2000) * 0.001. The float sums of the code
\* order as these integers do for candidates whose years are less than a
\* century apart.
score(text, c) ==
    LET hits == KeywordHits(text, c.span)
    IN  500 + (IF hits > 0 THEN 200 + 100 * Min(3, hits) ELSE 0) + (c.iso.g1 - 2000)

\* round(score, 2) in hundredths (a third decimal of 5 rounds as the binary
\* float does; it does not occur for years that do not end in 5)
round2(t) == IF t % 10 >= 5 THEN (t \div 10) + 1 ELSE t \div 10

Choice(evidence_date, confidence, hits) ==
    [evidence_date |-> evidence_date, confidence |-> confidence,
     rationale |-> <<"Context hits", hits>>]

\* {"evidence_date": None, "confidence": 0.0, "rationale": "No dates detected"}
NoChoice ==
    [evidence_date |-> None, confidence |-> 0, rationale |-> <<"No dates detected", 0>>]

\* the loop of _choose_evidence_date over the candidates left, best so far
RECURSIVE choose_loop(_, _, _)
choose_loop(text, cands, best) ==
    IF cands = <<>> THEN best
    ELSE LET c  == Head(cands)
             sc == score(text, c)
         IN  choose_loop(text, Tail(cands),
                 IF sc > best.best_score
                 THEN [best_score |-> sc,
                       best |-> Some(Choice(Some(c.iso), Min(99, round2(sc)),
                                            KeywordHits(text, c.span)))]
                 ELSE best)

\* _choose_evidence_date(text, cands)
choose_evidence_date(text, cands) ==
    LET r == choose_loop(text, cands, [best_score |-> -1000, best |-> None])
    IN  IF IsNone(r.best) THEN NoChoice ELSE Val(r.best)

\* _stage_extract_date(payload)
stage_extract_date(text) ==
    LET cands  == find_dates(text)
        choice == IF cands # <<>> THEN choose_evidence_date(text, cands) ELSE NoChoice
    IN  [evidence_date |-> choice.evidence_date,
         candidates |-> [i \in 1..Len(cands) |-> cands[i].iso],
         confidence |-> choice.confidence,
         rationale |-> choice.rationale]

\* payload.get("window") or {}: start and end are Optional date strings
Window(start, end) == [start |-> start, end |-> end]

\* _stage_date(payload)
stage_date(text, window) ==
    LET ext   == stage_extract_date(text)
        guard == stage_date_guard(ext.evidence_date, window.start, window.end)
    IN  [evidence_date |-> ext.evidence_date, candidates |-> ext.candidates,
         confidence |-> ext.confidence, rationale |-> ext.rationale,
         status |-> guard.status, reason |-> guard.reason]

-----------------------------------------------------------------------------
(* Texts and the inputs of the date functions *)

MaxMatches == 2

\* the match m found at the k-th place of the text
At(m, k) == [m EXCEPT !.span = <<20 * k, 20 * k + 10>>]

\* the runs of at most MaxMatches matches out of ms, at places first, first + 1, ...
Runs(ms, first) ==
    UNION { { [i \in 1..n |-> At(f[i], first + i - 1)] : f \in [1..n -> ms] } :
            n \in 0..MaxMatches }

Texts3(as, bs, cs) ==
    { Text(200, a, b, c) : a \in Runs(as, 1), b \in Runs(bs, 1 + MaxMatches),
                           c \in Runs(cs, 1 + 2 * MaxMatches) }

EmptyText == Text(0, <<>>, <<>>, <<>>)

M0(str) == Match(str, <<0, 0>>, 0)

\* matches of the three families of extract_dates: a date, 30 February,
\* month 13; the same date, day 32, another date; that date again, an unknown
\* month name, a third date
AgentsA == { M0(DateStr("iso_date", 2024, 1, 15)), M0(DateStr("iso_date", 2024, 2, 30)),
             M0(DateStr("ymd_sep", 2024, 13, 1)) }
AgentsB == { M0(DateStr("mdy", 1, 15, 2024)), M0(DateStr("mdy", 1, 32, 2024)),
             M0(DateStr("mdy", 3, 5, 2024)) }
AgentsC == { M0(DateStr("mon_comma", 3, 5, 2024)), M0(DateStr("mon_comma", 0, 5, 2024)),
             M0(DateStr("mon_comma", 1, 14, 2024)) }

AgentsTexts == {EmptyText} \cup Texts3(AgentsA, AgentsB, AgentsC)

\* matches of the three families of _find_dates, with their keyword hits
HitlA == { Match(DateStr("iso_date", 2024, 1, 15), <<0, 0>>, 0),
           Match(DateStr("iso_date", 2024, 2, 30), <<0, 0>>, 1),
           Match(DateStr("ymd_sep", 2023, 12, 31), <<0, 0>>, 2) }
HitlB == { Match(DateStr("mon_plain", 1, 15, 2024), <<0, 0>>, 1),
           Match(DateStr("mon_comma", 2, 30, 2024), <<0, 0>>, 0),
           Match(DateStr("mon_comma", 3, 5, 2024), <<0, 0>>, 4) }
HitlC == { Match(DateStr("dmy_name", 15, 1, 2024), <<0, 0>>, 3),
           Match(DateStr("dmy_name", 31, 4, 2024), <<0, 0>>, 0),
           Match(DateStr("dmy_name", 5, 3, 400), <<0, 0>>, 0) }

HitlTexts == {EmptyText} \cup Texts3(HitlA, HitlB, HitlC)

\* the texts and windows a date stage is run on
StageTexts ==
    {EmptyText}
    \cup Texts3({ Match(DateStr("iso_date", 2024, 1, 15), <<0, 0>>, 0),
                  Match(DateStr("iso_date", 2024, 2, 30), <<0, 0>>, 1) },
                { Match(DateStr("mon_comma", 3, 5, 2024), <<0, 0>>, 4) },
                { Match(DateStr("dmy_name", 5, 3, 400), <<0, 0>>, 0) })

Windows ==
    { Window(s, e) :
        s \in { None, Some(DateStr("iso_date", 2024, 1, 1)),
                Some(DateStr("iso_date", 2024, 1, 16)),
                Some(DateStr("iso_datetime", 2024, 1, 1)),
                Some(DateStr("ymd_sep", 2024, 1, 1)) },
        e \in { None, Some(DateStr("iso_date", 2024, 1, 15)),
                Some(DateStr("iso_date", 2024, 12, 31)),
                Some(DateStr("iso_date", 2024, 2, 30)) } }

TextInput(text) == [kind |-> "text", text |-> text]
StageInput(text, window) == [kind |-> "stage", text |-> text, window |-> window]
PipelineInput(text, llm, start, end) ==
    [kind |-> "pipeline", text |-> text, llm |-> llm, start |-> start, end |-> end]

\* the texts of a date guard: one with no date-like string, one in which the
\* patterns of extract_dates find 2024-01-15 and then 2024-03-05
PipelineTexts ==
    { Text(200, <<>>, <<>>, <<>>),
      Text(200, << At(M0(DateStr("iso_date", 2024, 1, 15)), 1) >>,
                << At(M0(DateStr("mdy", 3, 5, 2024)), 2) >>, <<>>) }

\* what a process of module im can be asked
FnInputs(im) ==
    IF im = "agents"
    THEN { r \in RangeInputs : ~IsNone(r.date_str) /\ ~IsNone(r.start) /\ ~IsNone(r.end) }
         \cup { TextInput(t) : t \in AgentsTexts }
         \cup { PipelineInput(t, l, s, e) : t \in PipelineTexts, l \in LlmDates,
                                             s \in BoundaryArgs, e \in BoundaryArgs }
    ELSE RangeInputs
         \cup { TextInput(t) : t \in HitlTexts }
         \cup { StageInput(t, w) : t \in StageTexts, w \in Windows }

\* extract_dates(text), the tool of the agents
ApplyExtractDates ==
    /\ impl = "agents"
    /\ fn_in.kind = "text" /\ fn_out = NoFnOutput
    /\ fn_out' = [fn |-> "extract_dates", ret |-> extract_dates(fn_in.text)]
    /\ UNCHANGED <<fn_in, hitlVars, impl, clock, cacheVars, supVars>>

\* _find_dates(text)
ApplyFindDates ==
    /\ impl = "hitl"
    /\ fn_in.kind = "text" /\ fn_out = NoFnOutput
    /\ fn_out' = [fn |-> "find_dates", ret |-> find_dates(fn_in.text)]
    /\ UNCHANGED <<fn_in, hitlVars, impl, clock, cacheVars, supVars>>

\* _stage_extract_date(payload)
ApplyStageExtractDate ==
    /\ impl = "hitl"
    /\ fn_in.kind = "text" /\ fn_out = NoFnOutput
    /\ fn_out' = [fn |-> "stage_extract_date", ret |-> stage_extract_date(fn_in.text)]
    /\ UNCHANGED <<fn_in, hitlVars, impl, clock, cacheVars, supVars>>

\* _stage_date(payload)
ApplyStageDate ==
    /\ impl = "hitl"
    /\ fn_in.kind = "stage" /\ fn_out = NoFnOutput
    /\ fn_out' = [fn |-> "stage_date", ret |-> stage_date(fn_in.text, fn_in.window)]
    /\ UNCHANGED <<fn_in, hitlVars, impl, clock, cacheVars, supVars>>

\* date_guard_pipeline(text, date_start, date_end)
ApplyDateGuardPipeline ==
    /\ impl = "agents"
    /\ fn_in.kind = "pipeline" /\ fn_out = NoFnOutput
    /\ fn_out' = [fn |-> "date_guard_pipeline",
                  ret |-> date_guard_pipeline(fn_in.llm, fn_in.start, fn_in.end)]
    /\ UNCHANGED <<fn_in, hitlVars, impl, clock, cacheVars, supVars>>

InitDates ==
    /\ InitCache /\ InitSup /\ InitNoCommand
    /\ fn_in \in FnInputs(impl)
    /\ fn_out = NoFnOutput

NextDates ==
    \/ ApplyCheckDateRange \/ ApplyStageDateGuard \/ ApplyExtractDates
    \/ ApplyFindDates \/ ApplyStageDate \/ ApplyDateGuardPipeline
    \/ ApplyStageExtractDate

SpecDates == InitDates /\ [][NextDates]_vars

-----------------------------------------------------------------------------
(* Claims about the date functions *)

\* the place of a day in the calendar order, and the day after a day
DayOrd(d) == d[1] * 10000 + d[2] * 100 + d[3]
NextDay(d) ==
    IF d[3] < DaysInMonth(d[1], d[2]) THEN <<d[1], d[2], d[3] + 1>>
    ELSE IF d[2] < 12 THEN <<d[1], d[2] + 1, 1>>
    ELSE <<d[1] + 1, 1, 1>>

IsIsoDay(o) == ~IsNone(o) /\ Val(o) \in IsoDays
DayOf(o) == <<Val(o).g1, Val(o).g2, Val(o).g3>>

RangeChecked == fn_out.fn \in {"check_date_range", "stage_date_guard"}

RangePassed ==
    \/ fn_out.fn = "check_date_range" /\ fn_out.ret.within /\ fn_out.ret.reason = "in range"
    \/ fn_out.fn = "stage_date_guard" /\ fn_out.ret.status = "pass"

RangeFailed ==
    \/ fn_out.fn = "check_date_range" /\ ~fn_out.ret.within
          /\ fn_out.ret.reason = "out of range"
    \/ fn_out.fn = "stage_date_guard" /\ fn_out.ret.status = "fail"

\* C12: date-range validation is inclusive on both ends: for calendar dates
\* d, windowStart, windowEnd with windowStart <= d <= windowEnd the result is
\* PASS (also for d = windowStart and d = windowEnd), and for d one day before
\* windowStart or one day after windowEnd it is FAIL, in check_date_range and
\* in the date guard of the stage engine alike.
C12_RangeInclusive ==
    (RangeChecked /\ IsIsoDay(fn_in.date_str) /\ IsIsoDay(fn_in.start) /\ IsIsoDay(fn_in.end)) =>
        LET d  == DayOf(fn_in.date_str)
            ws == DayOf(fn_in.start)
            we == DayOf(fn_in.end)
        IN  /\ (DayOrd(ws) <= DayOrd(d) /\ DayOrd(d) <= DayOrd(we)) => RangePassed
            /\ (NextDay(d) = ws \/ NextDay(we) = d) => RangeFailed
            /\ fn_out.ret.parsed_date = fn_in.date_str

\* C12 witness: the stage engine passes a date equal to the end of a window
\* of several days
C12_Witness ==
    /\ fn_out.fn = "stage_date_guard"
    /\ IsIsoDay(fn_in.date_str) /\ IsIsoDay(fn_in.start) /\ IsIsoDay(fn_in.end)
    /\ fn_in.date_str = fn_in.end
    /\ DayOrd(DayOf(fn_in.start)) < DayOrd(DayOf(fn_in.end))
    /\ fn_out.ret.status = "pass"

\* C13: validate never raises on bad input and reports it as a value: an
\* unparseable dateStr yields FAIL with parsedDate null and reason
\* "unrecognized date format" whatever the boundaries are, and a parseable
\* dateStr with an unparseable start or end boundary yields FAIL with reason
\* "invalid range"; the date guard pipeline reports the latter as status FAIL.
C13_BadInputIsAValue ==
    /\ fn_out.fn = "check_date_range" =>
          LET bad_date  == Val(fn_in.date_str) \in NotADate
              bad_bound == Val(fn_in.start) \in NotABoundary \/ Val(fn_in.end) \in NotABoundary
          IN  /\ bad_date =>
                    fn_out.ret = [within |-> FALSE, parsed_date |-> None,
                                  reason |-> "unrecognized date format"]
              /\ (~bad_date /\ bad_bound) =>
                    /\ ~fn_out.ret.within
                    /\ fn_out.ret.reason = "invalid range"
    /\ (fn_out.fn = "date_guard_pipeline" /\ ~fn_out.ret.raised
            /\ Len(fn_out.ret.reason) = 2
            /\ (fn_in.start \in NotABoundary \/ fn_in.end \in NotABoundary)) =>
          /\ fn_out.ret.status = "FAIL"
          /\ fn_out.ret.reason[2] = <<"range", "invalid range">>

\* C13 witness: a date that parses, checked against an end boundary that does
\* not, is reported as an invalid range
C13_Witness ==
    /\ fn_out.fn = "check_date_range"
    /\ Val(fn_in.date_str) \in IsoDays
    /\ Val(fn_in.start) \in IsoDays
    /\ Val(fn_in.end) \in NotABoundary
    /\ fn_out.ret.reason = "invalid range"

\* the boundaries the stage engine can read: three "-" separated numbers of a
\* real date
StageBoundaryOk(o) ==
    /\ ~IsNone(o)
    /\ Val(o) \in { DateStr("iso_date", 2024, 1, 1), DateStr("iso_date", 2024, 1, 16),
                    DateStr("iso_date", 2024, 1, 15), DateStr("iso_date", 2024, 12, 31) }

\* the date stage had an evidence date and a window it could read
StageAllParsed ==
    /\ fn_out.ret.evidence_date # None
    /\ StageBoundaryOk(fn_in.window.start) /\ StageBoundaryOk(fn_in.window.end)

\* the date guard of the supervisor had a date and boundaries it could read
PipelineAllParsed ==
    /\ fn_out.ret.parsed_date # None
    /\ fn_in.start \notin NotABoundary /\ fn_in.end \notin NotABoundary

PipelineReturned == fn_out.fn = "date_guard_pipeline" /\ ~fn_out.ret.raised

\* C14 (as claimed): every DateCheckResult of a date step (the date stage of
\* the stage engine, the date guard of the supervisor) has status PASS or FAIL
\* only when the evidence date and both window boundaries were present and
\* parsed, and status UNKNOWN only when one of them was absent or unparseable.
C14_PassFailOnlyWhenParsed ==
    /\ fn_out.fn = "stage_date" =>
          /\ fn_out.ret.status \in {"pass", "fail"} => StageAllParsed
          /\ fn_out.ret.status = "unknown" => ~StageAllParsed
    /\ PipelineReturned =>
          /\ fn_out.ret.status \in {"PASS", "FAIL"} => PipelineAllParsed
          /\ fn_out.ret.status = "UNKNOWN" => ~PipelineAllParsed

\* C14 (amended): the date stage of the stage engine has status pass or fail
\* exactly when an evidence date was chosen and both window boundaries were
\* present and parsed, and unknown otherwise; the date guard of the
\* supervisor has no UNKNOWN status: it reports PASS only when the evidence
\* date and both boundaries were present and parsed, and FAIL otherwise, also
\* when no date was extracted or a boundary is unparseable.
C14_PassFailOnlyWhenParsedAmended ==
    /\ fn_out.fn = "stage_date" =>
          /\ fn_out.ret.status \in {"pass", "fail", "unknown"}
          /\ fn_out.ret.status \in {"pass", "fail"} <=> StageAllParsed
    /\ PipelineReturned =>
          /\ fn_out.ret.status \in {"PASS", "FAIL"}
          /\ fn_out.ret.status = "PASS" => PipelineAllParsed
          /\ ~PipelineAllParsed => fn_out.ret.status = "FAIL"

\* C14 witness: the date stage found a date but was given a window whose
\* start it cannot read, and reports unknown
C14_Witness ==
    /\ fn_out.fn = "stage_date"
    /\ fn_out.ret.evidence_date # None
    /\ ~IsNone(fn_in.window.start) /\ ~StageBoundaryOk(fn_in.window.start)
    /\ StageBoundaryOk(fn_in.window.end)
    /\ fn_out.ret.status = "unknown"

\* the calendar dates written in the modelled texts
RealIsoDates ==
    { DateStr("iso_date", 2024, 1, 15), DateStr("iso_date", 2024, 3, 5),
      DateStr("iso_date", 2024, 1, 14), DateStr("iso_date", 2023, 12, 31),
      DateStr("iso_date", 400, 3, 5) }

\* what a match says, as year-month-day, whether or not it is a real date
Says(m) ==
    CASE m.str.fmt \in {"iso_date", "ymd", "ymd_sep"} ->
            DateStr("iso_date", m.str.g1, m.str.g2, m.str.g3)
      [] m.str.fmt = "dmy_name" -> DateStr("iso_date", m.str.g3, m.str.g2, m.str.g1)
      [] OTHER -> DateStr("iso_date", m.str.g3, m.str.g1, m.str.g2)

Extracted15 == fn_out.fn \in {"extract_dates", "find_dates"}

\* the ISO dates an extractor returned, in order
ExtractedIsos ==
    IF fn_out.fn = "find_dates"
    THEN [i \in 1..Len(fn_out.ret) |-> fn_out.ret[i].iso]
    ELSE fn_out.ret

\* what the matches of the text say, Family A first, then B, then C
MatchesSay ==
    LET all == fn_in.text.a \o fn_in.text.b \o fn_in.text.c
    IN  [i \in 1..Len(all) |-> Says(all[i])]

FirstSaid(x) == CHOOSE k \in 1..Len(MatchesSay) :
                    MatchesSay[k] = x /\ \A j \in 1..(k - 1) : MatchesSay[j] # x

\* C15: for any text (a finite sequence of date-like matches per format
\* family, valid or not) the extractor's output contains no ISO date twice,
\* contains only real calendar dates (30 February, month 13, day 32 are
\* dropped without error), and lists the distinct dates in the order in which
\* they were first produced, Family A before B before C; empty text yields
\* the empty list.
C15_ExtractorDistinctRealOrdered ==
    Extracted15 =>
        LET out == ExtractedIsos
        IN  /\ \A i, j \in 1..Len(out) : i # j => out[i] # out[j]
            /\ \A i \in 1..Len(out) :
                  out[i] \in RealIsoDates /\ \E k \in 1..Len(MatchesSay) : MatchesSay[k] = out[i]
            /\ \A k \in 1..Len(MatchesSay) :
                  MatchesSay[k] \in RealIsoDates => \E i \in 1..Len(out) : out[i] = MatchesSay[k]
            /\ \A i, j \in 1..Len(out) : i < j => FirstSaid(out[i]) < FirstSaid(out[j])
            /\ fn_in.text = EmptyText => out = <<>>

\* C15 witness: six matches, among them repeated and impossible dates, yield
\* two dates
C15_Witness ==
    /\ fn_out.fn = "extract_dates"
    /\ Len(MatchesSay) = 6
    /\ \E k \in 1..6 : MatchesSay[k] \notin RealIsoDates
    /\ fn_out.ret = << DateStr("iso_date", 2024, 1, 15), DateStr("iso_date", 2024, 3, 5) >>

-----------------------------------------------------------------------------
(* hitl.py: JSON values, stdin and stdout *)

\* What json.loads delivers. A str is the sequence of its characters; a str
\* the date stage scans is given as its matches (tag "text"); a str that is
\* one date-like string is given by its form (tag "date"). Lists hold numbers.
JNull    == [t |-> "null"]
JNum(n)  == [t |-> "num", n |-> n]
JStr(x)  == [t |-> "str", s |-> x]
JText(x) == [t |-> "text", x |-> x]
JDate(x) == [t |-> "date", d |-> x]
JList(l) == [t |-> "list", l |-> l]
JObj(o)  == [t |-> "obj", o |-> o]

\* Python truthiness of a JSON value
Truthy(j) ==
    CASE j.t = "null" -> FALSE
      [] j.t = "num"  -> j.n # 0
      [] j.t = "str"  -> j.s # <<>>
      [] j.t = "text" -> j.x.len # 0
      [] j.t = "date" -> TRUE
      [] j.t = "list" -> j.l # <<>>
      [] OTHER        -> DOMAIN j.o # {}

\* d.get(k) on a dict d
Get(d, k) == IF k \in DOMAIN d.o THEN d.o[k] ELSE JNull

\* d.get(k) or {}
GetOrEmpty(d, k) == IF Truthy(Get(d, k)) THEN Get(d, k) ELSE JObj(EmptyDict)

\* what the process leaves behind: the values printed, the exit status
Ended(out, code) == [stdout |-> out, stderr |-> "", exit_code |-> code]

\* an exception nobody catches: the interpreter prints the traceback on
\* stderr and exits with status 1
Uncaught == [stdout |-> <<>>, stderr |-> "traceback", exit_code |-> 1]

\* write_ok(payload), then the normal end of main
write_ok(payload) == Ended(<<payload>>, 0)

\* write_err(code, message, exit_code = 1): print the envelope, sys.exit
write_err(code, message, exit_code_) ==
    Ended(<< [error |-> [code |-> code, message |-> message]] >>, exit_code_)

\* stdin: nothing, text that is not JSON, or JSON
StdinEmpty     == [kind |-> "empty"]
StdinMalformed == [kind |-> "malformed"]
StdinJson(j)   == [kind |-> "json", body |-> j]

\* read_stdin_json(): the body, or the invalid_json envelope and exit 2
read_stdin_json(data) ==
    CASE data.kind = "empty"     -> [ok |-> TRUE, body |-> JObj(EmptyDict), end |-> Uncaught]
      [] data.kind = "malformed" ->
            [ok |-> FALSE, body |-> JNull, end |-> write_err("invalid_json", "json", 2)]
      [] OTHER                   -> [ok |-> TRUE, body |-> data.body, end |-> Uncaught]

-----------------------------------------------------------------------------
(* hitl.py: start, apply-edits, summarize *)

\* cmd_start(body); uuid is what uuid.uuid4() yields
cmd_start(body, uuid) ==
    IF body.t # "obj" THEN Uncaught
    ELSE write_ok([session |->
            [session_id |-> IF Truthy(Get(body, "session_id")) THEN Get(body, "session_id")
                            ELSE JStr(uuid),
             evidence_id |-> Get(body, "evidence_id"),
             current_stage |-> "ingest_text",
             status |-> "active"]])

\* mutant: the model output overrides the edits
dict_update_keep_old(d, e) ==
    [k \in DOMAIN d \cup DOMAIN e |-> IF k \in DOMAIN d THEN d[k] ELSE e[k]]

\* decided.update(edits)
dict_update(d, e) ==
    [k \in DOMAIN d \cup DOMAIN e |-> IF k \in DOMAIN e THEN e[k] ELSE d[k]]

\* cmd_apply_edits(body)
cmd_apply_edits(body) ==
    IF body.t # "obj" THEN Uncaught
    ELSE LET stage        == Get(body, "stage")
             model_output == GetOrEmpty(body, "model_output")
             human_input  == GetOrEmpty(body, "human_input")
         IN  IF model_output.t # "obj" THEN Uncaught        \* dict(model_output) raises
             ELSE IF human_input.t # "obj" THEN Uncaught    \* human_input.get raises
             ELSE LET edits   == GetOrEmpty(human_input, "edits")
                      decided == IF edits.t = "obj" THEN dict_update(model_output.o, edits.o)
                                 ELSE model_output.o
                  IN  write_ok([stage |-> stage, decided_output |-> decided])

\* cmd_summarize(body)
cmd_summarize(body) ==
    write_ok([summary |-> [note |-> "stub summarize", input |-> body]])

-----------------------------------------------------------------------------
(* hitl.py: the control matcher (_stage_control_candidates) *)

LowerLetters == "abcdefghijklmnopqrstuvwxyz"
UpperLetters == "ABCDEFGHIJKLMNOPQRSTUVWXYZ"
DigitChars   == "0123456789"

\* str.lower() on one ASCII character
lower_char(c) ==
    IF \E i \in 1..Len(UpperLetters) : SubSeq(UpperLetters, i, i) = c
    THEN LET i == CHOOSE j \in 1..Len(UpperLetters) : SubSeq(UpperLetters, j, j) = c
         IN  SubSeq(LowerLetters, i, i)
    ELSE c

\* str.lower()
lower(s) == [i \in 1..Len(s) |-> lower_char(s[i])]

\* the character class [a-z0-9]
TokenChar(c) ==
    \E i \in 1..Len(LowerLetters \o DigitChars) : SubSeq(LowerLetters \o DigitChars, i, i) = c

\* re.findall(r"[a-z0-9]+", s): the maximal runs, left to right. A run
\* starts where a class character follows none and ends before the next
\* character outside the class.
findall_tokens(s) ==
    LET starts == SelectSeq([i \in 1..Len(s) |-> i],
                            LAMBDA i : TokenChar(s[i]) /\ (i = 1 \/ ~TokenChar(s[i - 1])))
        end(i) == CHOOSE j \in i..Len(s) :
                      /\ \A m \in i..j : TokenChar(s[m])
                      /\ (j = Len(s) \/ ~TokenChar(s[j + 1]))
    IN  [k \in 1..Len(starts) |-> SubSeq(s, starts[k], end(starts[k]))]

stop ==
    { Chars(w) : w \in
        { "the", "and", "for", "with", "that", "this", "from", "are", "was", "were",
          "have", "has", "had", "shall", "should", "will", "may", "can", "must", "of",
          "to", "in", "on", "by", "or", "an", "a", "as", "be", "is", "it", "at", "we",
          "you", "they", "their", "our" } }

\* [t for t in re.findall(...) if t not in stop and len(t) > 2]
tokens_of(s) ==
    SelectSeq(findall_tokens(s), LAMBDA t : t \notin stop /\ Len(t) > 2)

\* ev_counts.get(t): how often t occurs among the evidence tokens (0: absent)
ev_counts(tokens, t) == Cardinality({ i \in DOMAIN tokens : tokens[i] = t })

MaxSpecTokens == 120
MaxHits       == 6
MaxCandidates == 7

\* l[:n]
Take(l, n) == SubSeq(l, 1, Min(n, Len(l)))

\* `for t in stokens`: the score, in tenths, and the first six hits
RECURSIVE score_loop(_, _, _)
score_loop(stokens, tokens, acc) ==
    IF stokens = <<>> THEN acc
    ELSE LET t == Head(stokens)
             c == ev_counts(tokens, t)
         IN  score_loop(Tail(stokens), tokens,
                 IF c > 0
                 THEN [score |-> acc.score + 10 + Min(5, c - 1),
                       hits  |-> IF Len(acc.hits) < MaxHits THEN Append(acc.hits, t)
                                 ELSE acc.hits]
                 ELSE acc)

\* A candidate. uuid is Absent when the dict has no such key; confidence is
\* in tenths while it is the raw score and in hundredths afterwards.
Candidate(id, uuid, label, confidence, rationale) ==
    [id |-> id, uuid |-> uuid, label |-> label, confidence |-> confidence,
     rationale |-> rationale]

\* `for row in specs`: the rows that scored above 0, in catalog order
RECURSIVE scored_rows(_, _)
scored_rows(specs, tokens) ==
    IF specs = <<>> THEN <<>>
    ELSE LET row     == Head(specs)
             cid     == Strip(row.control_id)
             spec    == Strip(row.specification)
             rid     == Strip(row.id)
             stokens == Take(tokens_of(lower(spec)), MaxSpecTokens)
             r       == score_loop(stokens, tokens, [score |-> 0, hits |-> <<>>])
         IN  (IF cid # <<>> /\ spec # <<>> /\ r.score > 0
              THEN << Candidate(cid, IF rid # <<>> THEN Str(rid) ELSE Null, cid, r.score,
                                <<"Spec overlap", r.hits>>) >>
              ELSE <<>>) \o scored_rows(Tail(specs), tokens)

\* max(x['confidence'] for x in scored)
RECURSIVE max_confidence(_)
max_confidence(l) ==
    IF Len(l) = 1 THEN l[1].confidence
    ELSE LET m == max_confidence(Tail(l))
         IN  IF l[1].confidence >= m THEN l[1].confidence ELSE m

\* round(0.5 + 0.49 * (conf / max_score), 2) in hundredths, conf and max_score
\* in tenths. The nearest hundredth; the value lies exactly between two
\* hundredths only when 98 * conf / max_score is an odd integer, and for
\* conf / max_score = 1/2 the double nearest to 0.745 lies below it, so
\* Python gives 0.74: the tie is rounded down.
normalise(conf, max_score) ==
    (2 * (50 * max_score + 49 * conf) + max_score - 1) \div (2 * max_score)

\* sorted(l, key=confidence, reverse=True): descending and stable
RECURSIVE insert_desc(_, _)
insert_desc(x, l) ==
    IF l = <<>> THEN <<x>>
    ELSE IF Head(l).confidence >= x.confidence THEN <<Head(l)>> \o insert_desc(x, Tail(l))
    ELSE <<x>> \o l

RECURSIVE sorted_desc(_)
sorted_desc(l) ==
    IF l = <<>> THEN <<>>
    ELSE insert_desc(l[Len(l)], sorted_desc(SubSeq(l, 1, Len(l) - 1)))

\* the specs-driven scoring: cands after line 416
catalog_cands(specs, text) ==
    LET scored == scored_rows(specs, tokens_of(text))
    IN  IF specs = <<>> \/ scored = <<>> THEN <<>>
        ELSE LET max_score == max_confidence(scored)
                 normed    == [i \in 1..Len(scored) |->
                                 [scored[i] EXCEPT !.confidence = normalise(@, max_score)]]
             IN  Take(sorted_desc(normed), MaxCandidates)

\* k in text
Contains(k, s) == \E i \in 1..(Len(s) - Len(k) + 1) : SubSeq(s, i, i + Len(k) - 1) = k

Rule(cid, label, keys) == [cid |-> cid, label |-> label, keys |-> keys]

rules ==
    << Rule("CTRL-PASS-001", "Password Policy",
            <<"password policy", "passwords", "complexity", "rotate", "expiration", "length">>),
       Rule("CTRL-AUTH-001", "Multi-Factor Authentication",
            <<"mfa", "2fa", "multi-factor", "two-factor", "otp", "okta">>),
       Rule("CTRL-ENC-001", "Encryption Controls",
            <<"encryption", "aes-256", "tls", "at rest", "in transit", "kms">>),
       Rule("CTRL-LOG-001", "Logging and Monitoring",
            <<"logging", "audit log", "cloudtrail", "siem", "splunk", "datadog", "cloudwatch">>),
       Rule("CTRL-IR-001", "Incident Response",
            <<"incident response", "irp", "playbook", "pagerduty", "sev", "major incident">>) >>

\* hits = [k for k in keys if k in text]
rule_hits(keys, text) == SelectSeq(keys, LAMBDA k : Contains(Chars(k), text))

\* mutant: no cap at 0.95
rule_confidence_uncapped(n) == 40 + 10 * n

\* round(min(0.4 + 0.1 * len(hits), 0.95), 2) in hundredths
rule_confidence(n) == Min(40 + 10 * n, 95)

\* `for cid, label, keys in rules`: one candidate per rule that has a hit,
\* appended in rule order
RECURSIVE rule_cands(_, _)
rule_cands(rs, text) ==
    IF rs = <<>> THEN <<>>
    ELSE LET hits == rule_hits(Head(rs).keys, text)
         IN  (IF hits # <<>>
              THEN << Candidate(Chars(Head(rs).cid), Absent, Chars(Head(rs).label),
                                rule_confidence(Len(hits)),
                                <<"Matched", [i \in 1..Len(hits) |-> Chars(hits[i])]>>) >>
              ELSE <<>>) \o rule_cands(Tail(rs), text)

GenericCandidate ==
    Candidate(Chars("CTRL-GEN-000"), Absent, Chars("General Control"), 25,
              <<"No specific overlaps detected", <<>>>>)

\* the keyword rules, or the generic candidate when no rule has a hit
fallback_cands(text) ==
    LET cands == rule_cands(rules, text)
    IN  IF cands = <<>> THEN <<GenericCandidate>> ELSE cands

\* mutant: the keyword rules are consulted whatever the catalog gave
control_candidates_rules_always(actions_summary_, text_, specs) ==
    LET text  == lower(Strip(actions_summary_ \o <<"\n">> \o text_))
        cands == catalog_cands(specs, text)
    IN  cands \o fallback_cands(text)

\* _stage_control_candidates on the two strings of the payload and the specs
\* that _get_control_specs_cached() returned
control_candidates(actions_summary_, text_, specs) ==
    LET text  == lower(Strip(actions_summary_ \o <<"\n">> \o text_))
        cands == catalog_cands(specs, text)
    IN  IF cands # <<>> THEN cands ELSE fallback_cands(text)

-----------------------------------------------------------------------------
(* The outside world of the matcher: catalogs and evidence texts *)

Row(rid, cid, spec) == Obj(Str(Chars(rid)), Str(Chars(cid)), Str(Chars(spec)))

K1 == Row("u1", "AC-1", "Quarterly access review of user accounts")
K2 == Row("u2", "AC-2", "Access is revoked on termination")
K3 == Row("",   "BK-1", " Backup restore ")
K4 == Row("u4", "BK-2", "Restore drill")
K5 == Row("u5", "LG-1", "Audit logs are retained and the review is monthly")
K6 == Row("u6", "VN-1", "Vendor risk review")
K7 == Row("u7", "PT-1", "Patch servers monthly")
K8 == Row("u8", "TR-1", "Security training for user accounts")
K9 == Row("u9", "CH-1", "Change review board")
K10 == Obj(Null, Str(Chars("NW-1")),
           Str(Chars("Firewall rules; firewall logs, firewall change, firewall review: "
                     \o "firewall audit & firewall patch - firewall vendor")))

FullCatalog  == ListDoc(<<K1, K2, K3, K4, K5, K6, K7, K8, K9, K10>>)
SmallCatalog == ListDoc(<<K4, K3, K7>>)
MatcherDocs  == { ListDoc(<<>>), SmallCatalog, FullCatalog }

MatcherHttp  == {HttpNone} \cup { HttpJson(d) : d \in MatcherDocs }
MatcherFiles == {FileMissing} \cup { FileJson(d) : d \in MatcherDocs }

\* the worlds the one reload of a run-stage process can meet
MatcherEnvs ==
    UNION { UNION { { Env(conf, p, NotAsked, l) :
                        l \in IF ListTruthy(load_specs_from_supabase("hitl", conf, p, NotAsked).val)
                              THEN {FileNotAsked} ELSE MatcherFiles }
                    : p \in IF conf THEN MatcherHttp ELSE {NotAsked} }
            : conf \in BOOLEAN }

MatcherReloads == { ReloadSpecs("hitl", env) : env \in MatcherEnvs }

MatcherTexts ==
    { "",
      "Password policy enforced with MFA login",
      "password policy with mfa and otp",
      "Passwords rotate; complexity and length and expiration per password policy. TLS, KMS.",
      "Quarterly access review completed",
      "Backup and restore tested",
      "Monthly: review of access, review of audit logs, vendor review, change review;"
        \o " patch, training, user accounts, backup.",
      "firewall FIREWALL firewall rules logs change review audit patch vendor",
      "Nothing relevant here" }

MatcherSummaries == { "", "Restore drill done.", "Okta SSO" }

-----------------------------------------------------------------------------
(* hitl.py: the stages of run-stage *)

STAGES ==
    << "ingest_text", "date", "action_describer", "control_candidates",
       "finalize_classification" >>

\* `stage in STAGES`
InStages(stage) == stage.t = "str" /\ \E i \in 1..Len(STAGES) : Chars(STAGES[i]) = stage.s

\* what a stage function gives: the dict it returns, or an exception
StageReturned(out) == [raised |-> FALSE, out |-> <<out>>]
StageRaised == [raised |-> TRUE, out |-> <<>>]

\* payload.get(k) or "" when a str is expected
GetOrEmptyStr(d, k) == IF Truthy(Get(d, k)) THEN Get(d, k) ELSE JStr(<<>>)

MaxTextChars == 200000

\* len(text)
json_len(j) ==
    CASE j.t = "str"  -> Len(j.s)
      [] j.t = "text" -> j.x.len
      [] j.t = "list" -> Len(j.l)
      [] j.t = "obj"  -> Cardinality(DOMAIN j.o)

\* text[:n]: of a scanned text the matches that end within the first n
\* characters remain
json_slice(j, n) ==
    CASE j.t = "str"  -> JStr(Take(j.s, n))
      [] j.t = "text" ->
            LET within(ms) == SelectSeq(ms, LAMBDA m : m.span[2] <= n)
            IN  JText(Text(Min(n, j.x.len), within(j.x.a), within(j.x.b), within(j.x.c)))
      [] j.t = "list" -> JList(Take(j.l, n))

\* _stage_ingest_text(payload): len() of a number raises, a dict has no slice
stage_ingest_text(payload) ==
    LET text   == GetOrEmptyStr(payload, "text")
        source == IF Truthy(Get(payload, "source")) THEN Get(payload, "source")
                  ELSE JStr(Chars("unknown"))
    IN  IF text.t = "num" THEN StageRaised
        ELSE IF json_len(text) > MaxTextChars
        THEN IF text.t = "obj" THEN StageRaised
             ELSE StageReturned([text |-> json_slice(text, MaxTextChars), source |-> source,
                            truncated |-> TRUE,
                            length |-> json_len(json_slice(text, MaxTextChars))])
        ELSE StageReturned([text |-> text, source |-> source, truncated |-> FALSE,
                       length |-> json_len(text)])

\* the text the date patterns are run on; a str given by its characters
\* holds no date
scanned(j) == IF j.t = "text" THEN j.x ELSE Text(Len(j.s), <<>>, <<>>, <<>>)

\* str(x) of a window boundary: only a str can be a Y-M-D string
boundary_str(j) == IF j.t = "date" THEN j.d ELSE Junk

\* payload.get("window") or {}, then window.get("start"), window.get("end"):
\* a falsy boundary is no boundary; .get on a window that is not a dict
\* raises inside the try of the guard, as a boundary that fails to parse does
window_of(payload) ==
    LET w == GetOrEmpty(payload, "window")
        side(k) == IF Truthy(Get(w, k)) THEN Some(boundary_str(Get(w, k))) ELSE None
    IN  IF w.t = "obj" THEN Window(side("start"), side("end"))
        ELSE Window(Some(Junk), Some(Junk))

\* _stage_date(payload): re.finditer on a text that is not a str raises
stage_date_payload(payload) ==
    LET text == GetOrEmptyStr(payload, "text")
    IN  IF text.t \notin {"str", "text"} THEN StageRaised
        ELSE StageReturned(stage_date(scanned(text), window_of(payload)))

max_words == 120

\* re.sub(r"\s+", " ", text).strip(): of each whitespace run between two
\* words one space is kept
collapse_body(s) ==
    LET keep(i) == \/ ~IsSpace(s[i])
                   \/ /\ i > 1 /\ ~IsSpace(s[i - 1])
                      /\ \E j \in (i + 1)..Len(s) : ~IsSpace(s[j])
        idx     == SelectSeq([i \in 1..Len(s) |-> i], keep)
    IN  [k \in 1..Len(idx) |-> IF IsSpace(s[idx[k]]) THEN " " ELSE s[idx[k]]]

\* truncated.rfind('.') + 1: the place of the last period, 0 if there is none
rfind_period(s) ==
    IF \E i \in 1..Len(s) : s[i] = "."
    THEN CHOOSE i \in 1..Len(s) : s[i] = "." /\ \A j \in (i + 1)..Len(s) : s[j] # "."
    ELSE 0

\* action_describer_agent(text): body has one space between two words, so
\* the first max_words words joined end before the max_words-th space
action_describer_agent(text) ==
    LET body      == collapse_body(text)
        spaces    == SelectSeq([i \in 1..Len(body) |-> i], LAMBDA i : body[i] = " ")
        truncated == SubSeq(body, 1, spaces[max_words] - 1)
        cut       == rfind_period(truncated) - 1
        floor     == LET a == (Len(truncated) * 6) \div 10 IN IF a > 40 THEN a ELSE 40
    IN  IF body = <<>> THEN <<>>
        ELSE IF Len(spaces) + 1 <= max_words THEN body
        ELSE IF cut >= floor THEN SubSeq(truncated, 1, cut + 1)
        ELSE truncated

\* _stage_action_describer(payload)
stage_action_describer(payload) ==
    LET text == GetOrEmptyStr(payload, "text")
    IN  IF text.t # "str" THEN StageRaised
        ELSE StageReturned([actions_summary |-> action_describer_agent(text.s)])

\* the concatenation of line 372 succeeds: both operands are strings
control_candidates_text_ok(payload) ==
    /\ GetOrEmptyStr(payload, "actions_summary").t = "str"
    /\ GetOrEmptyStr(payload, "text").t = "str"

\* _stage_control_candidates(payload), specs being the catalog the cache gave
stage_control_candidates(payload, specs) ==
    IF ~control_candidates_text_ok(payload) THEN StageRaised
    ELSE StageReturned([candidates |->
            control_candidates(GetOrEmptyStr(payload, "actions_summary").s,
                               GetOrEmptyStr(payload, "text").s, specs)])

\* _stage_finalize_classification(payload)
stage_finalize_classification(payload) ==
    StageReturned([classification |->
                 [evidence_date |-> Get(payload, "evidence_date"),
                  control |-> Get(payload, "selection"),
                  actions_summary |-> Get(payload, "actions_summary")],
              summary |-> "HITL classification summary"])

\* the stage of the body is the stage named
StageIs(body, name) == Get(body, "stage") = JStr(Chars(name))

\* cmd_run_stage(body). The final else of the chain (lines 474-476) cannot
\* be reached: a stage in STAGES is one of the five compared.
cmd_run_stage(body, specs, elapsed_ms) ==
    IF body.t # "obj" THEN Uncaught
    ELSE LET stage   == Get(body, "stage")
             payload == GetOrEmpty(body, "payload")
         IN  IF ~InStages(stage) THEN write_err("invalid_stage", "Unknown stage", 1)
             ELSE IF payload.t # "obj" THEN Uncaught
             ELSE LET r == CASE StageIs(body, "ingest_text") -> stage_ingest_text(payload)
                             [] StageIs(body, "date") -> stage_date_payload(payload)
                             [] StageIs(body, "action_describer") ->
                                    stage_action_describer(payload)
                             [] StageIs(body, "control_candidates") ->
                                    stage_control_candidates(payload, specs)
                             [] OTHER -> stage_finalize_classification(payload)
                  IN  IF r.raised THEN Uncaught
                      ELSE write_ok([stage |-> stage, model_output |-> r.out[1],
                                     meta |-> [elapsed_ms |-> elapsed_ms]])

\* run-stage reaches the call of _get_control_specs_cached() (line 376)
ReadsCatalog(body) ==
    /\ body.t = "obj"
    /\ StageIs(body, "control_candidates")
    /\ GetOrEmpty(body, "payload").t = "obj"
    /\ control_candidates_text_ok(GetOrEmpty(body, "payload"))

-----------------------------------------------------------------------------
(* hitl.py: main, one process per invocation *)

\* the process has been started and has not ended
Running == argv # <<>> /\ exit_code = None

\* the process ends: what it printed and its exit status
End(e) ==
    /\ stdout' = e.stdout
    /\ stderr' = e.stderr
    /\ exit_code' = Some(e.exit_code)
    /\ UNCHANGED <<argv, stdin, session>>

\* the subcommand is read and stdin holds JSON (or nothing)
Dispatch(sub) == Running /\ Len(argv) >= 2 /\ argv[2] = sub /\ read_stdin_json(stdin).ok

Subcommands == {"start", "run-stage", "apply-edits", "summarize"}

\* len(argv) < 2: the usage envelope; stdin is not read
MainUsage ==
    /\ Running /\ Len(argv) < 2
    /\ End(write_err("usage", "Expected subcommand", 2))
    /\ UNCHANGED <<fnVars, impl, clock, cacheVars, supVars>>

\* read_stdin_json() fails, whatever the subcommand
MainInvalidJson ==
    /\ Running /\ Len(argv) >= 2 /\ ~read_stdin_json(stdin).ok
    /\ End(read_stdin_json(stdin).end)
    /\ UNCHANGED <<fnVars, impl, clock, cacheVars, supVars>>

Uuids == { Chars("uuid-a"), Chars("uuid-b") }

MainStart ==
    /\ Dispatch("start")
    /\ \E uuid \in Uuids : End(cmd_start(read_stdin_json(stdin).body, uuid))
    /\ UNCHANGED <<fnVars, impl, clock, cacheVars, supVars>>

\* what int((time.perf_counter() - t0) * 1000) can give
ElapsedMs == {0, 3}

\* run-stage that does not reach the catalog
MainRunStage ==
    /\ Dispatch("run-stage")
    /\ ~ReadsCatalog(read_stdin_json(stdin).body)
    /\ \E e \in ElapsedMs : End(cmd_run_stage(read_stdin_json(stdin).body, <<>>, e))
    /\ UNCHANGED <<fnVars, impl, clock, cacheVars, supVars>>

\* the outcomes the catalog call of this process can meet
MatcherReloadChoices ==
    IF CacheFresh(SPECS_CACHE, SPECS_CACHE_AT, clock) THEN {NoReload} ELSE MatcherReloads

\* run-stage control_candidates: the catalog is read through the cache
MainRunStageControlCandidates ==
    /\ Dispatch("run-stage")
    /\ ReadsCatalog(read_stdin_json(stdin).body)
    /\ \E reload \in MatcherReloadChoices, e \in ElapsedMs :
          LET r == get_control_specs_cached(SPECS_CACHE, SPECS_CACHE_AT, clock, reload)
          IN  /\ CallGetSpecs(reload)
              /\ End(IF r.raised THEN Uncaught
                     ELSE cmd_run_stage(read_stdin_json(stdin).body, r.ret, e))
    /\ UNCHANGED <<fnVars, impl, clock, supVars>>

MainApplyEdits ==
    /\ Dispatch("apply-edits")
    /\ End(cmd_apply_edits(read_stdin_json(stdin).body))
    /\ UNCHANGED <<fnVars, impl, clock, cacheVars, supVars>>

MainSummarize ==
    /\ Dispatch("summarize")
    /\ End(cmd_summarize(read_stdin_json(stdin).body))
    /\ UNCHANGED <<fnVars, impl, clock, cacheVars, supVars>>

MainUnknownSubcommand ==
    /\ Running /\ Len(argv) >= 2 /\ argv[2] \notin Subcommands
    /\ read_stdin_json(stdin).ok
    /\ End(write_err("unknown_subcommand", "Unknown subcommand", 1))
    /\ UNCHANGED <<fnVars, impl, clock, cacheVars, supVars>>

-----------------------------------------------------------------------------
(* The invocations of hitl.py *)

Dict1(k, v) == [x \in {k} |-> v]

StartBodies ==
    { JObj(EmptyDict),
      JObj([session_id |-> JStr(Chars("s1")), evidence_id |-> JStr(Chars("e1"))]),
      JObj([evidence_id |-> JNum(7)]),
      JList(<<>>), JList(<<1>>), JNum(5), JNull, JStr(Chars("s1")) }

IngestPayloads ==
    { JObj(EmptyDict),
      JObj([text |-> JStr(Chars("abc")), source |-> JStr(Chars("upload"))]),
      JObj([text |-> JText(Text(MaxTextChars + 50,
                                << Match(DateStr("iso_date", 2024, 1, 15), <<20, 30>>, 0),
                                   Match(DateStr("iso_date", 2024, 3, 5),
                                         <<MaxTextChars - 5, MaxTextChars + 5>>, 0) >>,
                                <<>>, <<>>))]),
      JObj([text |-> JNum(5)]),
      JObj([text |-> JList(<<1, 2>>)]),
      JObj([text |-> JObj(Dict1("a", JNum(1)))]) }

WindowValues ==
    { JNull, JList(<<1>>),
      JObj([start |-> JDate(DateStr("iso_date", 2024, 1, 1)),
            end |-> JDate(DateStr("iso_date", 2024, 12, 31))]),
      JObj([start |-> JDate(DateStr("iso_date", 2024, 1, 16)),
            end |-> JDate(DateStr("iso_date", 2024, 12, 31))]),
      JObj([start |-> JDate(DateStr("iso_datetime", 2024, 1, 1)),
            end |-> JDate(DateStr("iso_date", 2024, 12, 31))]),
      JObj([start |-> JNum(20240101), end |-> JDate(DateStr("iso_date", 2024, 12, 31))]),
      JObj([start |-> JDate(DateStr("iso_date", 2024, 1, 1))]) }

DatePayloads ==
    { JObj([text |-> JText(t), window |-> w]) : t \in StageTexts, w \in WindowValues }
    \cup { JObj([text |-> JNum(5)]), JObj([text |-> JStr(Chars("no date here"))]) }

\* n words "a." and n words "a" with one period after the first
ManySentences(n) == [i \in 1..(3 * n - 1) |-> IF i % 3 = 1 THEN "a" ELSE IF i % 3 = 2 THEN "." ELSE " "]
ManyWords(n)     == <<"a", ".">> \o [i \in 1..(2 * n - 2) |-> IF i % 2 = 1 THEN " " ELSE "a"]

DescriberPayloads ==
    { JObj(EmptyDict),
      JObj([text |-> JStr(Chars("  Reviewed   access.\nRevoked two accounts. "))]),
      JObj([text |-> JStr(ManySentences(max_words + 2))]),
      JObj([text |-> JStr(ManyWords(max_words + 2))]),
      JObj([text |-> JStr(ManyWords(max_words))]),
      JObj([text |-> JNum(5)]) }

MatcherPayloads ==
    { JObj([text |-> JStr(Chars(t)), actions_summary |-> JStr(Chars(a))]) :
        t \in MatcherTexts, a \in MatcherSummaries }
    \cup { JObj([text |-> JStr(Chars("Okta SSO"))]),
           JObj([text |-> JNum(5)]),
           JObj([text |-> JStr(Chars("mfa")), actions_summary |-> JList(<<1>>)]) }

FinalizePayloads ==
    { JObj(EmptyDict),
      JObj([evidence_date |-> JDate(DateStr("iso_date", 2024, 1, 15)),
            selection |-> JObj(Dict1("id", JStr(Chars("AC-1")))),
            actions_summary |-> JStr(Chars("Reviewed access."))]),
      JObj([evidence_date |-> JDate(DateStr("iso_date", 2024, 1, 15)),
            candidates |-> JList(<< JObj(Dict1("id", JStr(Chars("BK-1")))),
                                    JObj(Dict1("id", JStr(Chars("AC-1")))) >>),
            actions_summary |-> JStr(Chars("Reviewed access."))]) }

StagePayloads(name) ==
    CASE name = "ingest_text"        -> IngestPayloads
      [] name = "date"               -> DatePayloads
      [] name = "action_describer"   -> DescriberPayloads
      [] name = "control_candidates" -> MatcherPayloads
      [] OTHER                       -> FinalizePayloads

\* stages that are none of the five
UnknownStages == { JStr(Chars("select_control")), JStr(Chars("Date")), JNull, JNum(3), JList(<<>>) }

RunStageBodies ==
    UNION { { JObj([stage |-> JStr(Chars(STAGES[i])), payload |-> pl]) :
                pl \in StagePayloads(STAGES[i]) \cup {JList(<<1>>), JNull} }
            : i \in 1..Len(STAGES) }
    \cup { JObj([stage |-> st, payload |-> pl]) :
             st \in UnknownStages, pl \in {JObj(EmptyDict), JList(<<1>>)} }
    \cup { JObj(EmptyDict), JList(<<>>), JNull }

EditKeys == {"a", "b"}
EditVals == { JNum(1), JNum(2), JNull }

\* the maps from some of the keys to the values
EditMaps == UNION { [K -> EditVals] : K \in SUBSET EditKeys }

ApplyEditsBodies ==
    { JObj([stage |-> JStr(Chars("date")), model_output |-> JObj(m),
            human_input |-> JObj(Dict1("edits", JObj(e)))]) : m \in EditMaps, e \in EditMaps }
    \cup { JObj([stage |-> JStr(Chars("date")), model_output |-> JObj(m)]) : m \in EditMaps }
    \cup { JObj([model_output |-> JObj(Dict1("a", JObj(Dict1("x", JNum(1))))),
                 human_input |-> JObj(Dict1("edits", JObj(Dict1("a", JObj(Dict1("y", JNum(2)))))))]),
           JObj([model_output |-> JObj(Dict1("a", JNum(1))),
                 human_input |-> JObj(Dict1("edits", JList(<<1>>)))]),
           JObj([model_output |-> JList(<<1>>)]),
           JObj([human_input |-> JList(<<1>>)]),
           JObj(EmptyDict), JList(<<>>), JNull }

SummarizeBodies == { JObj(EmptyDict), JObj(Dict1("a", JNum(1))), JList(<<1>>), JNull }

Bodies(sub) ==
    CASE sub = "start"       -> StartBodies
      [] sub = "run-stage"   -> RunStageBodies
      [] sub = "apply-edits" -> ApplyEditsBodies
      [] sub = "summarize"   -> SummarizeBodies
      [] OTHER               -> { JObj(EmptyDict), JList(<<>>) }

Invocation(a, i) == [argv |-> a, stdin |-> i]

Invocations ==
    { Invocation(<<"hitl.py">>, i) : i \in {StdinEmpty, StdinMalformed} }
    \cup UNION { { Invocation(<<"hitl.py", sub>>, i) :
                     i \in {StdinEmpty, StdinMalformed} \cup { StdinJson(b) : b \in Bodies(sub) } }
                 : sub \in Subcommands \cup {"finish"} }

InitHitl ==
    /\ InitCache /\ impl = "hitl"
    /\ InitSup
    /\ InitFn
    /\ \E inv \in Invocations : argv = inv.argv /\ stdin = inv.stdin
    /\ stdout = <<>>
    /\ stderr = ""
    /\ exit_code = None
    /\ session = <<>>

NextHitl ==
    \/ MainUsage
    \/ MainInvalidJson
    \/ MainStart
    \/ MainRunStage
    \/ MainRunStageControlCandidates
    \/ MainApplyEdits
    \/ MainSummarize
    \/ MainUnknownSubcommand

SpecHitl == InitHitl /\ [][NextHitl]_vars

-----------------------------------------------------------------------------
(* Claims about the stage engine *)

\* run-stage ended with a {stage, model_output, meta} output of the stage named
StagePrinted(name) ==
    /\ Len(argv) >= 2 /\ argv[2] = "run-stage"
    /\ exit_code = Some(0)
    /\ stdout[1].stage = JStr(Chars(name))

\* the candidates of a printed control_candidates output
PrintedCandidates == stdout[1].model_output.candidates

\* C16: every list returned by the control_candidates stage, on the
\* catalog-scoring path and on the keyword-rule fallback path alike, has at
\* most 7 entries and is ordered by confidence, highest first.
C16_AtMostSevenByConfidence ==
    StagePrinted("control_candidates") =>
        /\ Len(PrintedCandidates) <= MaxCandidates
        /\ \A i \in 1..(Len(PrintedCandidates) - 1) :
              PrintedCandidates[i].confidence >= PrintedCandidates[i + 1].confidence

\* the lower-cased text the matcher of the printed output worked on
MatcherText ==
    LET payload == GetOrEmpty(stdin.body, "payload")
    IN  lower(Strip(GetOrEmptyStr(payload, "actions_summary").s \o <<"\n">>
                    \o GetOrEmptyStr(payload, "text").s))

Range(f) == { f[i] : i \in DOMAIN f }

\* the spec of a catalog row has a word in common with the text: a token of
\* more than two characters that is no stop word
SharesWord(row, text) ==
    Range(Take(tokens_of(lower(row.specification)), MaxSpecTokens))
        \cap Range(tokens_of(text)) # {}

FallbackIds ==
    { Chars(id) : id \in { "CTRL-PASS-001", "CTRL-AUTH-001", "CTRL-ENC-001", "CTRL-LOG-001",
                           "CTRL-IR-001", "CTRL-GEN-000" } }

\* a candidate of the keyword rules: one of the six ids, no uuid key
IsFallbackCandidate(c) == c.id \in FallbackIds /\ c.uuid = Absent

\* a candidate backed by a row of the catalog the cache returned
IsCatalogCandidate(c) ==
    /\ c.uuid # Absent
    /\ \E i \in 1..Len(call.ret) :
          /\ call.ret[i].control_id = c.id
          /\ c.uuid = (IF call.ret[i].id # <<>> THEN Str(call.ret[i].id) ELSE Null)

\* C17: the keyword-rule fallback candidates are returned if and only if the
\* catalog is empty or no catalog spec scored above 0; every candidate of a
\* result is either catalog-backed or a fallback candidate, and no result
\* holds both kinds.
C17_FallbackIffNothingScored ==
    StagePrinted("control_candidates") =>
        LET cands    == PrintedCandidates
            fallback == { i \in 1..Len(cands) : IsFallbackCandidate(cands[i]) }
            catalog  == { i \in 1..Len(cands) : IsCatalogCandidate(cands[i]) }
        IN  /\ call.valid
            /\ fallback \cup catalog = 1..Len(cands)
            /\ fallback = {} \/ catalog = {}
            /\ (fallback # {}) <=>
                  (\A i \in 1..Len(call.ret) : ~SharesWord(call.ret[i], MatcherText))

\* a non-empty catalog none of whose specs shares a word with the text: the
\* generic fallback candidate is returned
C17_Witness ==
    /\ StagePrinted("control_candidates")
    /\ call.ret # <<>>
    /\ \A i \in 1..Len(call.ret) : ~SharesWord(call.ret[i], MatcherText)
    /\ PrintedCandidates = <<GenericCandidate>>

\* the keywords of a rule that occur in the text
KeywordsIn(rule, text) ==
    { i \in 1..Len(rule.keys) : Contains(Chars(rule.keys[i]), text) }

\* the places of the candidate with the id given
PlacesOf(cands, id) == { i \in 1..Len(cands) : cands[i].id = Chars(id) }

\* the printed candidates come from the fallback path
FallbackPrinted ==
    /\ StagePrinted("control_candidates")
    /\ \E i \in 1..Len(PrintedCandidates) : IsFallbackCandidate(PrintedCandidates[i])

\* C18: on the fallback path each of the five keyword rules with at least one
\* keyword occurring in the lower-cased text appears exactly once, with
\* confidence min(0.4 + 0.1 * hitCount, 0.95); a rule with no hit does not
\* appear; the generic candidate, confidence 0.25, is returned, alone, exactly
\* when no rule has a hit; a text with "password policy" and "mfa" yields both
\* CTRL-PASS-001 and CTRL-AUTH-001.
C18_FallbackRules ==
    FallbackPrinted =>
        LET cands == PrintedCandidates
            hit(r) == Cardinality(KeywordsIn(rules[r], MatcherText))
            noHit == \A r \in 1..Len(rules) : hit(r) = 0
        IN  /\ \A r \in 1..Len(rules) :
                  IF hit(r) > 0
                  THEN /\ Cardinality(PlacesOf(cands, rules[r].cid)) = 1
                       /\ \A i \in PlacesOf(cands, rules[r].cid) :
                             cands[i].confidence = (IF 40 + 10 * hit(r) < 95
                                                    THEN 40 + 10 * hit(r) ELSE 95)
                  ELSE PlacesOf(cands, rules[r].cid) = {}
            /\ (PlacesOf(cands, "CTRL-GEN-000") # {}) <=> noHit
            /\ noHit => (Len(cands) = 1 /\ cands[1].confidence = 25)
            /\ (Contains(Chars("password policy"), MatcherText)
                    /\ Contains(Chars("mfa"), MatcherText)) =>
                  (PlacesOf(cands, "CTRL-PASS-001") # {} /\ PlacesOf(cands, "CTRL-AUTH-001") # {})

\* the fixture text: both rules are returned
C18_Witness ==
    /\ FallbackPrinted
    /\ MatcherText = Chars("password policy enforced with mfa login")
    /\ [i \in 1..Len(PrintedCandidates) |-> PrintedCandidates[i].id]
          = << Chars("CTRL-PASS-001"), Chars("CTRL-AUTH-001") >>

\* the body apply-edits read
GivenBody == read_stdin_json(stdin).body

\* apply-edits printed a decided output for a model_output map and an edits map
EditsApplied ==
    /\ Len(argv) >= 2 /\ argv[2] = "apply-edits"
    /\ exit_code = Some(0)
    /\ GetOrEmpty(GetOrEmpty(GivenBody, "human_input"), "edits").t = "obj"

GivenModelOutput == GetOrEmpty(GivenBody, "model_output").o
GivenEdits       == GetOrEmpty(GetOrEmpty(GivenBody, "human_input"), "edits").o
DecidedOutput    == stdout[1].decided_output

\* the same request with the decided output in the place of the model output
AppliedAgain ==
    cmd_apply_edits(JObj([stage |-> Get(GivenBody, "stage"),
                          model_output |-> JObj(DecidedOutput),
                          human_input |-> Get(GivenBody, "human_input")]))

\* C19: apply-edits is a shallow overlay: the decided output has the keys of
\* the model output and of the edits and no other; a key of the edits carries
\* the value of the edits, every other key the value of the model output.
\* With an empty edits map the decided output is the model output, and
\* applying the same edits to the decided output again changes nothing.
C19_ShallowOverlay ==
    EditsApplied =>
        /\ DOMAIN DecidedOutput = DOMAIN GivenModelOutput \cup DOMAIN GivenEdits
        /\ \A k \in DOMAIN GivenEdits : DecidedOutput[k] = GivenEdits[k]
        /\ \A k \in DOMAIN GivenModelOutput \ DOMAIN GivenEdits :
              DecidedOutput[k] = GivenModelOutput[k]
        /\ (DOMAIN GivenEdits = {}) => (DecidedOutput = GivenModelOutput)
        /\ AppliedAgain.exit_code = 0
        /\ AppliedAgain.stdout[1].decided_output = DecidedOutput

\* an edit replaces a value of the model output and adds a key with null
C19_Witness ==
    /\ EditsApplied
    /\ GivenModelOutput = [a |-> JNum(1)]
    /\ GivenEdits = [a |-> JNum(2), b |-> JNull]
    /\ DecidedOutput = [a |-> JNum(2), b |-> JNull]

\* what was printed is one error envelope
EnvelopePrinted == Len(stdout) = 1 /\ DOMAIN stdout[1] = {"error"}

\* what was printed is one output that is no error envelope
SuccessPrinted == Len(stdout) = 1 /\ "error" \notin DOMAIN stdout[1]

\* run-stage was asked for a stage that is none of the five
UnknownStageAsked ==
    /\ Len(argv) >= 2 /\ argv[2] = "run-stage"
    /\ read_stdin_json(stdin).ok
    /\ read_stdin_json(stdin).body.t = "obj"
    /\ ~InStages(Get(read_stdin_json(stdin).body, "stage"))

\* C20: every invocation of the command protocol ends in exactly one of: a
\* success output with exit code 0, an error envelope with exit code 2
\* (malformed stdin JSON or missing subcommand), an error envelope with exit
\* code 1 (unknown subcommand, unknown stage); run-stage with a stage outside
\* the five known stages emits the error envelope and no
\* {stage, model_output, meta} output.
C20_OutputOrEnvelope ==
    (exit_code # None) =>
        /\ \/ exit_code = Some(0) /\ SuccessPrinted
           \/ /\ exit_code = Some(2) /\ EnvelopePrinted
              /\ (Len(argv) < 2 \/ stdin = StdinMalformed)
           \/ /\ exit_code = Some(1) /\ EnvelopePrinted
              /\ Len(argv) >= 2
              /\ (argv[2] \notin Subcommands \/ UnknownStageAsked)
        /\ UnknownStageAsked =>
              (EnvelopePrinted /\ stdout[1].error.code = "invalid_stage" /\ exit_code = Some(1))

\* a step in which a run-stage process runs to its end
RunStageStep ==
    /\ Len(argv) >= 2 /\ argv[2] = "run-stage"
    /\ exit_code = None /\ exit_code' # None

\* C21: running any stage through run-stage leaves all process-wide state
\* unchanged: the specification cache entries and timestamp after the command
\* equal those before it, for every stage and payload.
C21_RunStageLeavesGlobals ==
    [][RunStageStep => UNCHANGED <<SPECS_CACHE, SPECS_CACHE_AT>>]_vars

\* C21 (amended): run-stage leaves the process-wide state unchanged for every
\* stage and payload except where the control_candidates stage reaches the
\* catalog: that stage reads the catalog through the cache, and the reload it
\* triggers stores the loaded catalog and the time of the call in the cache
\* and changes nothing else. What the other stages print is a function of
\* the payload (and of the elapsed time reported in meta).
C21_RunStageLeavesGlobalsAmended ==
    [][RunStageStep =>
          /\ UNCHANGED <<impl, clock, supVars, fnVars>>
          /\ IF ReadsCatalog(read_stdin_json(stdin).body) /\ read_stdin_json(stdin).ok
             THEN \/ UNCHANGED <<SPECS_CACHE, SPECS_CACHE_AT>> /\ ~call'.reloaded
                  \/ /\ call'.reloaded
                     /\ SPECS_CACHE' = Some(call'.ret)
                     /\ SPECS_CACHE_AT' = Some(clock)
             ELSE /\ UNCHANGED cacheVars
                  /\ read_stdin_json(stdin).ok =>
                        \E e \in ElapsedMs :
                           stdout' = cmd_run_stage(read_stdin_json(stdin).body, <<>>, e).stdout]_vars

\* the control_candidates stage has run in a process whose cache was empty
\* and has left a loaded catalog and its load time behind
C21_Witness ==
    /\ StagePrinted("control_candidates")
    /\ call.valid /\ call.reloaded /\ call.cacheBefore = None
    /\ SPECS_CACHE = Some(call.ret) /\ call.ret # <<>>
    /\ SPECS_CACHE_AT = Some(clock)

-----------------------------------------------------------------------------
(* A host that runs the stages of one evidence item, one hitl.py process    *)
(* per run-stage command                                                    *)

MaxCommands == 2

StageBody(name, payload) == JObj([stage |-> JStr(Chars(name)), payload |-> payload])

ItemText ==
    JText(Text(200, << At(Match(DateStr("iso_date", 2024, 1, 15), <<0, 0>>, 0), 1) >>,
               <<>>, <<>>))

ItemWindow(start) ==
    JObj([start |-> JDate(DateStr("iso_date", 2024, 1, start)),
          end |-> JDate(DateStr("iso_date", 2024, 12, 31))])

\* the commands the host may send for the item: the date stage with a window
\* that holds the date, one that does not, and none
SessionBodies ==
    { StageBody("ingest_text", JObj([text |-> JStr(Chars("abc"))])),
      StageBody("date", JObj([text |-> ItemText, window |-> ItemWindow(1)])),
      StageBody("date", JObj([text |-> ItemText, window |-> ItemWindow(16)])),
      StageBody("date", JObj([text |-> ItemText])),
      StageBody("action_describer", JObj([text |-> JStr(Chars("Backup and restore tested"))])),
      StageBody("control_candidates", JObj([text |-> JStr(Chars("Backup and restore tested"))])),
      StageBody("finalize_classification",
                JObj([evidence_date |-> JDate(DateStr("iso_date", 2024, 1, 15)),
                      selection |-> JObj(Dict1("id", JStr(Chars("BK-1")))),
                      actions_summary |-> JStr(Chars("Backup and restore tested"))])),
      StageBody("finalize_classification",
                JObj([evidence_date |-> JDate(DateStr("iso_date", 2024, 1, 15))])) }

\* what the host keeps of a finished command
Finished ==
    [body |-> read_stdin_json(stdin).body,
     exit_code |-> Val(exit_code),
     model_output |-> IF Val(exit_code) = 0 THEN Some(stdout[1].model_output) ELSE None]

\* the host starts the next run-stage process: a fresh interpreter, whose
\* module globals are those of lines 307-308
HostRunStage ==
    /\ impl = "hitl"
    /\ argv = <<>> \/ exit_code # None
    /\ Len(session) + (IF argv = <<>> THEN 0 ELSE 1) < MaxCommands
    /\ session' = IF argv = <<>> THEN session ELSE Append(session, Finished)
    /\ argv' = <<"hitl.py", "run-stage">>
    /\ \E body \in SessionBodies : stdin' = StdinJson(body)
    /\ stdout' = <<>>
    /\ stderr' = ""
    /\ exit_code' = None
    /\ SPECS_CACHE' = None
    /\ SPECS_CACHE_AT' = None
    /\ call' = NoCall
    /\ lastLoad' = None
    /\ UNCHANGED <<fnVars, impl, clock, supVars, threads>>

InitSession == InitCache /\ impl = "hitl" /\ InitSup /\ InitFn /\ InitNoCommand

NextSession == HostRunStage \/ MainRunStage \/ MainRunStageControlCandidates

SpecSession == InitSession /\ [][NextSession]_vars

\* the commands of the item so far, the one that has just ended included
Commands == IF argv = <<>> \/ exit_code = None THEN session ELSE Append(session, Finished)

\* the place of a stage in the pipeline
PipelinePlace(stage) == CHOOSE i \in 1..Len(STAGES) : Chars(STAGES[i]) = stage.s

\* a command that printed the output of its stage
ProducedOutput(c) == c.exit_code = 0
StageOf(c) == Get(c.body, "stage")

\* a date command whose output reports a status other than pass
DateNotPassed(c) ==
    /\ ProducedOutput(c)
    /\ StageOf(c) = JStr(Chars("date"))
    /\ Val(c.model_output).status # "pass"

\* a finalize command whose classification has a control
FinalizedWithControl(c) ==
    /\ ProducedOutput(c)
    /\ StageOf(c) = JStr(Chars("finalize_classification"))
    /\ Val(c.model_output).classification.control # JNull

\* C22: in any sequence of run-stage commands for one evidence item the
\* stages produce output only in pipeline order, and once the date stage has
\* reported a status other than pass no later stage produces output, so no
\* finalized classification with a control exists for an item whose date
\* check did not pass.
C22_ShortCircuitOnDateFailure ==
    \A i \in 1..Len(Commands) : \A j \in (i + 1)..Len(Commands) :
        (ProducedOutput(Commands[i]) /\ ProducedOutput(Commands[j])) =>
            /\ PipelinePlace(StageOf(Commands[i])) <= PipelinePlace(StageOf(Commands[j]))
            /\ DateNotPassed(Commands[i]) =>
                  PipelinePlace(StageOf(Commands[j])) <= PipelinePlace(JStr(Chars("date")))
            /\ ~(DateNotPassed(Commands[i]) /\ FinalizedWithControl(Commands[j]))

-----------------------------------------------------------------------------
(* Claims about finalize_classification                                     *)

FinalizePayload == GetOrEmpty(GivenBody, "payload")
FinalizedControl == stdout[1].model_output.classification.control
GivenCandidates ==
    IF Get(FinalizePayload, "candidates").t = "list" THEN Get(FinalizePayload, "candidates").l ELSE <<>>

\* C23: finalize_classification sets the control of the classification to
\* the selection when the payload carries one, and otherwise to the
\* top-ranked candidate; the control is never null when there is at least
\* one candidate.
C23_ControlIsSelectionOrTop ==
    StagePrinted("finalize_classification") =>
        IF Get(FinalizePayload, "selection") # JNull
        THEN FinalizedControl = Get(FinalizePayload, "selection")
        ELSE GivenCandidates # <<>> =>
                /\ FinalizedControl = GivenCandidates[1]
                /\ FinalizedControl # JNull

-----------------------------------------------------------------------------
(* One catalog reload, in each of the worlds it can meet                    *)

ReloadInput(env) == [kind |-> "reload", env |-> env]

\* specs = _load_specs_from_supabase() or _load_specs_local_fallback() or []
ApplyReloadSpecs ==
    /\ fn_in.kind = "reload" /\ fn_out = NoFnOutput
    /\ fn_out' = [fn |-> "reload", r |-> ReloadSpecs(impl, fn_in.env)]
    /\ UNCHANGED <<fn_in, hitlVars, impl, clock, cacheVars, supVars>>

InitReload ==
    /\ InitCache /\ InitSup /\ InitNoCommand
    /\ fn_in \in { ReloadInput(env) : env \in Envs(impl) }
    /\ fn_out = NoFnOutput

NextReload == ApplyReloadSpecs

SpecReload == InitReload /\ [][NextReload]_vars

Reloaded == fn_out.fn = "reload"

\* the source was consulted during the reload
Asked(src) == \E i \in 1..Len(fn_out.r.contacted) : fn_out.r.contacted[i] = src

SourcePlace(src) == CASE src = "primary" -> 1 [] src = "rpc" -> 2 [] OTHER -> 3

\* the sources consulted are consulted in the order primary, secondary, local
FixedOrder ==
    \A i \in 1..Len(fn_out.r.contacted) : \A j \in (i + 1)..Len(fn_out.r.contacted) :
        SourcePlace(fn_out.r.contacted[i]) < SourcePlace(fn_out.r.contacted[j])

\* the endpoint whose document the remote loader filters
RemoteDocument == IF Asked("rpc") THEN fn_in.env.rpc ELSE fn_in.env.primary

FilterRows(rows) == IF impl = "agents" THEN FilterRowsAgents(rows) ELSE FilterRowsHitl(rows)

\* the returned catalog is the filtered rows of the remote document
ReturnsFilteredRemoteRows ==
    /\ RemoteDocument.kind = "json" /\ RemoteDocument.doc.kind = "list"
    /\ ~fn_out.r.raised
    /\ fn_out.r.specs = FilterRows(RemoteDocument.doc.rows).out

\* C24: during a reload the sources are consulted in a fixed order; the
\* secondary endpoint is consulted only if the primary returned nothing
\* parseable, the local file only if the remote source failed (its loader
\* returned no list); when the remote source succeeds the local file is not
\* read and the returned catalog is the filtered remote rows.
C24_SourceOrder ==
    Reloaded =>
        /\ FixedOrder
        /\ Asked("rpc") => Asked("primary") /\ fn_in.env.primary.kind # "json"
        /\ Asked("local") => fn_out.r.remote \in {"none", "raised"}
        /\ fn_out.r.remote \in {"list", "empty"} =>
              ~Asked("local") /\ ReturnsFilteredRemoteRows

\* C24 (amended): the sources are consulted in a fixed order; the secondary
\* endpoint is consulted exactly when the primary gave no text, text that
\* does not parse, or a document that is empty (null, [], {}), and only by
\* the supervisor's loader; the local file is read exactly when the remote
\* loader neither raised nor returned a non-empty list; when the remote
\* loader returns a non-empty list the local file is not read and the
\* returned catalog is the filtered remote rows.
C24_SourceOrderAmended ==
    Reloaded =>
        /\ FixedOrder
        /\ Asked("rpc") <=>
              /\ impl = "agents" /\ Asked("primary")
              /\ \/ fn_in.env.primary.kind # "json"
                 \/ fn_in.env.primary.doc.kind \in {"null", "emptydict"}
                 \/ fn_in.env.primary.doc = ListDoc(<<>>)
        /\ Asked("primary") <=> fn_in.env.conf
        /\ Asked("local") <=> fn_out.r.remote \in {"none", "empty"}
        /\ fn_out.r.remote = "list" =>
              ~Asked("local") /\ ReturnsFilteredRemoteRows /\ fn_out.r.specs # <<>>

\* a reload that asked all three sources and took the catalog of the file
C24_Witness ==
    /\ Reloaded
    /\ fn_out.r.contacted = <<"primary", "rpc", "local">>
    /\ fn_in.env.primary = HttpJson(ListDoc(<<>>))
    /\ fn_out.r.loc = "list"
    /\ fn_out.r.specs # <<>>

-----------------------------------------------------------------------------
(* Claims about the evidence date chooser                                   *)

\* the date stage has run on a text; the candidates the chooser was given
StageDateRan == fn_out.fn = "stage_date"
ChooserCands == find_dates(fn_in.text)

\* the i-th candidate has the maximal score and is the first that has it
FirstMaximum(i) ==
    \A j \in 1..Len(ChooserCands) :
        /\ score(fn_in.text, ChooserCands[j]) <= score(fn_in.text, ChooserCands[i])
        /\ j < i => score(fn_in.text, ChooserCands[j]) < score(fn_in.text, ChooserCands[i])

\* C25: for every non-empty candidate list the chooser returns the candidate
\* whose score is maximal, the first of the list among those with that
\* score; for an empty list it returns no date, confidence 0 and the
\* rationale "no dates detected" (the message is compared without regard to
\* the case of its first letter).
C25_ChoosesFirstMaximum ==
    StageDateRan =>
        IF ChooserCands = <<>>
        THEN /\ fn_out.ret.evidence_date = None
             /\ fn_out.ret.confidence = 0
             /\ fn_out.ret.rationale[1] = "No dates detected"
        ELSE \E i \in 1..Len(ChooserCands) :
                /\ fn_out.ret.evidence_date = Some(ChooserCands[i].iso)
                /\ FirstMaximum(i)

\* the extraction stage has run on a text
ExtractRan == fn_out.fn = "stage_extract_date"

\* the candidate chosen, when one was
ChosenPlace == CHOOSE i \in 1..Len(ChooserCands) : fn_out.ret.evidence_date = Some(ChooserCands[i].iso)
HitsOf(i) == KeywordHits(fn_in.text, ChooserCands[i].span)
YearTerm(i) == ChooserCands[i].iso.g1 - 2000

\* the bonus for n keywords, in thousandths: as claimed, and with every hit counted
BonusFurtherHits(n) == IF n = 0 THEN 0 ELSE IF n = 1 THEN 200 ELSE 200 + 100 * Min(3, n - 1)
BonusEveryHit(n) == IF n = 0 THEN 0 ELSE 200 + 100 * Min(3, n)

\* C26: the keyword bonus of a candidate with n context keywords in its
\* window is 0 for n = 0, 0.2 for n = 1 and 0.2 + 0.1 * min(3, n - 1) for
\* n >= 2, added to the base score 0.5 (and the year term); the confidence
\* reported for the chosen candidate is that score rounded to hundredths and
\* capped at 0.99.
C26_KeywordBonus ==
    ExtractRan =>
        /\ \A i \in 1..Len(ChooserCands) :
              score(fn_in.text, ChooserCands[i]) = 500 + BonusFurtherHits(HitsOf(i)) + YearTerm(i)
        /\ fn_out.ret.evidence_date # None =>
              fn_out.ret.confidence =
                  Min(99, round2(500 + BonusFurtherHits(HitsOf(ChosenPlace)) + YearTerm(ChosenPlace)))

\* C26 (amended): the keyword bonus of a candidate with n context keywords
\* in its window is 0 for n = 0 and 0.2 + 0.1 * min(3, n) for n >= 1 (0.3
\* for one keyword, at most 0.5), added to the base score 0.5 (and the year
\* term); the confidence reported for the chosen candidate is that score
\* rounded to hundredths and capped at 0.99.
C26_KeywordBonusAmended ==
    ExtractRan =>
        /\ \A i \in 1..Len(ChooserCands) :
              score(fn_in.text, ChooserCands[i]) = 500 + BonusEveryHit(HitsOf(i)) + YearTerm(i)
        /\ fn_out.ret.evidence_date # None =>
              fn_out.ret.confidence =
                  Min(99, round2(500 + BonusEveryHit(HitsOf(ChosenPlace)) + YearTerm(ChosenPlace)))

\* a candidate with one keyword was chosen with confidence 0.82
C26_Witness ==
    /\ ExtractRan
    /\ Len(ChooserCands) = 1
    /\ HitsOf(1) = 1
    /\ fn_out.ret.evidence_date = Some(ChooserCands[1].iso)
    /\ fn_out.ret.confidence = 82

-----------------------------------------------------------------------------
(* Claims about the rationale of the catalog-backed candidates              *)

\* the matched tokens a candidate's rationale lists
RationaleTokens(c) == c.rationale[2]

\* C27: for every catalog-backed candidate, the matched tokens listed in its
\* rationale are pairwise distinct and at most 6, whatever the specification
\* text (one in which the same token occurs several times included).
C27_RationaleTokensDistinct ==
    StagePrinted("control_candidates") =>
        \A k \in 1..Len(PrintedCandidates) :
            IsCatalogCandidate(PrintedCandidates[k]) =>
                LET hits == RationaleTokens(PrintedCandidates[k])
                IN  /\ Len(hits) <= MaxHits
                    /\ \A i \in 1..Len(hits) : \A j \in 1..Len(hits) :
                          hits[i] = hits[j] => i = j

-----------------------------------------------------------------------------
(* Claims about the date guard of the supervisor                            *)

\* the text-generation extraction gave no date: a null result or a failed call
LlmGaveNoDate == IsNone(llm_extract_date_core(fn_in.llm).date)

\* the dates the regex extraction finds in the text of the guard
RegexCandidates == extract_dates(fn_in.text)

\* C28: when the text-generation extraction yields no date (a null result or
\* a failed call), the date guard pipeline falls back to the regex
\* extraction and range-checks its first candidate; it reports FAIL for
\* lack of a date only when the regex extraction finds none either.
C28_RegexFallback ==
    (PipelineReturned /\ LlmGaveNoDate) =>
        IF RegexCandidates = <<>>
        THEN fn_out.ret.status = "FAIL" /\ fn_out.ret.parsed_date = None
        ELSE LET r == check_date_range(RegexCandidates[1], fn_in.start, fn_in.end)
             IN  /\ fn_out.ret.status = (IF r.within THEN "PASS" ELSE "FAIL")
                 /\ fn_out.ret.parsed_date = r.parsed_date

-----------------------------------------------------------------------------
(* Two threads of one host in _get_control_specs_cached, with no lock: the  *)
(* steps of a call are the places where the interpreter can switch threads  *)

MaxCalls == 2

\* the outcomes a reload of a thread can meet: no source gives a catalog, the
\* remote gives one row, the file gives two, the remote gives a list that
\* holds a number (which raises in the supervisor's loader)
ThreadEnvs ==
    { Env(FALSE, NotAsked, NotAsked, FileMissing),
      Env(TRUE, HttpJson(ListDoc(<<RowA>>)), NotAsked, FileNotAsked),
      Env(FALSE, NotAsked, NotAsked, FileJson(ListDoc(<<RowA, RowB>>))),
      Env(TRUE, HttpJson(ListDoc(<<Scalar>>)), NotAsked, FileMissing) }

ThreadReloads == { ReloadSpecs(impl, env) : env \in ThreadEnvs }

\* mutant: a reload that gave nothing leaves the cached entries alone
store_cache_if_loaded(cache, specs) == IF specs = <<>> THEN cache ELSE Some(specs)

\* `_SPECS_CACHE, ... = specs, ...`: the first of the two global stores
store_cache(cache, specs) == Some(specs)

Reloading(t) == threads[t].pc \in {"load", "store", "stamp"}

\* now = time.time() and the test of the early return
ThreadCheck(t) ==
    /\ threads[t].pc \in {"idle", "done"}
    /\ threads[t].calls < MaxCalls
    /\ threads' = [threads EXCEPT ![t] =
          [pc |-> IF CacheFresh(SPECS_CACHE, SPECS_CACHE_AT, clock) THEN "return" ELSE "load",
           now |-> clock, specs |-> <<>>, ret |-> None, calls |-> @.calls + 1,
           reloaded |-> FALSE, overlapped |-> FALSE]]
    /\ UNCHANGED <<SPECS_CACHE, SPECS_CACHE_AT, call, lastLoad>>
    /\ UNCHANGED <<fnVars, hitlVars, impl, clock, supVars>>

\* return _SPECS_CACHE: the global is read again
ThreadReturnCached(t) ==
    /\ threads[t].pc = "return"
    /\ threads' = [threads EXCEPT ![t].pc = "done", ![t].ret = Some(Val(SPECS_CACHE))]
    /\ UNCHANGED <<SPECS_CACHE, SPECS_CACHE_AT, call, lastLoad>>
    /\ UNCHANGED <<fnVars, hitlVars, impl, clock, supVars>>

\* specs = _load_specs_from_supabase() or _load_specs_local_fallback() or []
ThreadLoad(t) ==
    /\ threads[t].pc = "load"
    /\ \E reload \in ThreadReloads :
          threads' = [threads EXCEPT
              ![t].pc = IF reload.raised THEN "done" ELSE "store",
              ![t].specs = reload.specs,
              ![t].reloaded = TRUE,
              ![t].overlapped = \E u \in Threads \ {t} : Reloading(u)]
    /\ UNCHANGED <<SPECS_CACHE, SPECS_CACHE_AT, call, lastLoad>>
    /\ UNCHANGED <<fnVars, hitlVars, impl, clock, supVars>>

\* the store of _SPECS_CACHE
ThreadStoreCache(t) ==
    /\ threads[t].pc = "store"
    /\ SPECS_CACHE' = store_cache(SPECS_CACHE, threads[t].specs)
    /\ threads' = [threads EXCEPT ![t].pc = "stamp"]
    /\ UNCHANGED <<SPECS_CACHE_AT, call, lastLoad>>
    /\ UNCHANGED <<fnVars, hitlVars, impl, clock, supVars>>

\* the store of _SPECS_CACHE_AT, and return specs
ThreadStoreAt(t) ==
    /\ threads[t].pc = "stamp"
    /\ SPECS_CACHE_AT' = Some(threads[t].now)
    /\ threads' = [threads EXCEPT ![t].pc = "done", ![t].ret = Some(threads[t].specs)]
    /\ UNCHANGED <<SPECS_CACHE, call, lastLoad>>
    /\ UNCHANGED <<fnVars, hitlVars, impl, clock, supVars>>

NextThreads ==
    \/ Tick
    \/ \E t \in Threads :
          \/ ThreadCheck(t) \/ ThreadReturnCached(t) \/ ThreadLoad(t)
          \/ ThreadStoreCache(t) \/ ThreadStoreAt(t)

SpecThreads == Init /\ [][NextThreads]_vars

\* thread t stores the entries of the cache in this step
StoresCache(t) == threads[t].pc = "store" /\ threads'[t].pc = "stamp"

\* C29: two getSpecs invocations interleaved without mutual exclusion can
\* both find the cache empty or expired and each reloads on its own; nothing
\* holds a reload back while another is under way, and the invocation that
\* writes last determines the cache: its store replaces the entries by its
\* own list whatever the cache held, the empty list of a failed reload
\* included.
C29_LastWriterDeterminesCache ==
    [][\A t \in Threads :
          /\ StoresCache(t) => SPECS_CACHE' = Some(threads[t].specs)
          /\ (threads[t].pc \in {"idle", "done"} /\ threads'[t].pc # threads[t].pc) =>
                threads'[t].pc = (IF CacheFresh(SPECS_CACHE, SPECS_CACHE_AT, clock)
                                  THEN "return" ELSE "load")]_vars

\* both threads found the cache stale and reloaded at the same time; one
\* loaded a catalog and returned it, the other's reload failed and was
\* written last: the cache holds the empty list
C29_Witness ==
    \E t \in Threads : \E u \in Threads \ {t} :
        /\ threads[t].pc = "done" /\ threads[u].pc = "done"
        /\ threads[t].reloaded /\ threads[u].reloaded
        /\ threads[t].overlapped \/ threads[u].overlapped
        /\ threads[t].ret # None /\ Val(threads[t].ret) # <<>>
        /\ threads[u].ret = Some(<<>>)
        /\ SPECS_CACHE = Some(<<>>)

-----------------------------------------------------------------------------
(* Claims about the proposals the control assigner accepts                  *)

\* the assigner returns in this step
AssignReturns == pc \in {"assign_llm", "assign_retry"} /\ pc' = "assign_return"

\* a reply that proposes a control code of the catalog loaded for the call
ProposesCatalogCode(resp) ==
    /\ resp.kind = "obj"
    /\ StrTruthy(resp.control_id)
    /\ InCatalog(assign.specs, Val(resp.control_id))

\* C30: a proposal whose control_id equals the controlCode of a spec of the
\* loaded catalog is accepted: the step returns that control_id and does not
\* answer "not_in_catalog", for every catalog, those whose rows have an empty
\* record id included.
C30_CatalogCodeAccepted ==
    [][AssignReturns =>
          \A resp \in LlmAssigns :
              (ProposesCatalogCode(resp)
                  /\ assign'.out = Some(validate_choice(assign.specs, resp))) =>
                  /\ Val(assign'.out).control_id = resp.control_id
                  /\ Val(assign'.out).rationale # "not_in_catalog"]_vars

====
